---- MODULE Spec2Model ----
(***************************************************************************)
(* Model of the LeetCode assistant extension:                              *)
(*   - the streaming chat client (streamChatRequest) and the side panel    *)
(*     that feeds its events into the transcript,                          *)
(*   - the polling scrape orchestrator of the background service worker,   *)
(*   - the extractors that run in the page,                                *)
(*   - the messages between the panel, the service worker and the page     *)
(*     scripts, with the panel's problem loading and ingestion,            *)
(*   - the event-driven orchestrator waitForProblem of the page script,    *)
(*   - the helpers normalizeDifficulty and parseHtmlContent.               *)
(* Texts are sequences of one-character strings, so that splitting,        *)
(* trimming, decoding and parsing are computed and not assumed.            *)
(***************************************************************************)
EXTENDS Integers, Sequences, FiniteSets, TLC

\* ------------------------------------------------------------------ bounds
\* longest response body, in lines
MaxLines == 2
\* questions one panel session submits
MaxSubmits == 2
\* problem refreshes one panel session starts after the initial load
MaxRefresh == 1
\* last reading of the millisecond clock
MaxClock == 2
\* longest network step of one scrape attempt, in poll intervals
MaxSlow == 2
\* how late the poll timer may fire, in poll intervals
MaxLate == 1
\* objects below the root of window.__NEXT_DATA__
MaxNodes == 2

\* navigations and tab switches in a session
MaxNavs == 2
\* messages handed to the listeners besides GET_ACTIVE_PROBLEM
MaxMessages == 2
\* GET_ACTIVE_PROBLEM messages a panel sends in a session
MaxCalls == 2

\* steps in which the time of a waitForProblem call passes up to its timeout
MaxTicks == 3
\* DOM mutations and ready-state changes during a waitForProblem call
MaxEvents == 2

\* whitespace characters before and after a difficulty label
MaxPad == 1
\* child nodes of the body of a parsed fragment
MaxChildren == 3

\* ------------------------------------------------------------ text helpers
NULL == "null"
NL == "\n"
SP == " "
\* the two bytes of one multi-byte character, and the character they decode to
HI == "H"
LO == "L"
WIDE == "W"
\* U+FFFD, what TextDecoder emits for a malformed byte sequence
REPL == "?"

Last(s) == s[Len(s)]
Front(s) == SubSeq(s, 1, Len(s) - 1)

RECURSIVE decodeFrom(_)
\* TextDecoder.decode(value, {stream: true}) on pending bytes followed by value
decodeFrom(bytes) ==
  IF bytes = <<>> THEN [text |-> <<>>, pending |-> <<>>]
  ELSE IF Head(bytes) = HI
    THEN IF Len(bytes) = 1 THEN [text |-> <<>>, pending |-> <<HI>>]
         ELSE IF bytes[2] = LO
           THEN LET r == decodeFrom(SubSeq(bytes, 3, Len(bytes)))
                IN [text |-> <<WIDE>> \o r.text, pending |-> r.pending]
           ELSE LET r == decodeFrom(Tail(bytes))
                IN [text |-> <<REPL>> \o r.text, pending |-> r.pending]
  ELSE LET r == decodeFrom(Tail(bytes))
       IN [text |-> <<(IF Head(bytes) = LO THEN REPL ELSE Head(bytes))>> \o r.text,
           pending |-> r.pending]

\* decoder.decode() with no argument: flush, an incomplete character becomes U+FFFD
decodeFlush(pending) == IF pending = <<>> THEN <<>> ELSE <<REPL>>

RECURSIVE split(_)
\* String.prototype.split('\n')
split(s) ==
  IF \A i \in 1..Len(s) : s[i] # NL THEN <<s>>
  ELSE LET i == CHOOSE i \in 1..Len(s) : s[i] = NL /\ \A j \in 1..(i - 1) : s[j] # NL
       IN <<SubSeq(s, 1, i - 1)>> \o split(SubSeq(s, i + 1, Len(s)))

RECURSIVE trim(_)
\* String.prototype.trim()
trim(s) ==
  IF s # <<>> /\ Head(s) \in {SP, NL} THEN trim(Tail(s))
  ELSE IF s # <<>> /\ Last(s) \in {SP, NL} THEN trim(Front(s))
  ELSE s

\* ------------------------------------------------------------ stream events
\* A line is abstract JSON text: a one-letter tag followed by its field.
\*   t<x> token, e<x> end, c<x> cached, x<m> error, s sources, y summary,
\*   u a JSON object of no known type; any other text is not JSON.
TokenTexts == {"a", WIDE}
Answers == {"A", "B"}
ErrorTexts == {"m"}

SyntaxError == [type |-> "SyntaxError", val |-> NULL]

\* JSON.parse(line) as ChatStreamEvent
JSONparse(line) ==
  LET t == trim(line) IN
  IF Len(t) = 2 /\ t[1] = "t" /\ t[2] \in TokenTexts THEN [type |-> "token", val |-> t[2]]
  ELSE IF Len(t) = 2 /\ t[1] = "e" /\ t[2] \in Answers THEN [type |-> "end", val |-> t[2]]
  ELSE IF Len(t) = 2 /\ t[1] = "c" /\ t[2] \in Answers THEN [type |-> "cached", val |-> t[2]]
  ELSE IF Len(t) = 2 /\ t[1] = "x" /\ t[2] \in ErrorTexts THEN [type |-> "error", val |-> t[2]]
  ELSE IF t = <<"s">> THEN [type |-> "sources", val |-> NULL]
  ELSE IF t = <<"y">> THEN [type |-> "summary", val |-> NULL]
  ELSE IF t = <<"u">> THEN [type |-> "unknown", val |-> NULL]
  ELSE SyntaxError

\* normalizeChatResponse, a ChatResponse being represented by its answer: answer ?? ''
normalizeChatResponse(payload) == IF payload = NULL THEN "" ELSE payload

\* rejection texts
NoFinalPayload == "Chat stream completed without a final payload."
AbortError == "AbortError"
FailedToFetch == "Failed to fetch"
BackendFailed == "Backend request failed"
NoStreaming == "Streaming is not supported in this environment."

\* transcript texts
ErroredText == <<"Assistant encountered an error. Please try again.">>
FailedText == <<"Assistant failed to respond. Please try again.">>

\* --------------------------------------------------------------- variables
VARIABLES
  scope,          \* which inputs a run draws from: "stream" or "panel" (fixed by Init)
  submitsLeft,    \* questions the user may still submit
  refreshLeft,    \* refreshes that may still be started
  now,            \* Date.now()
  initPc,         \* position of initialise(): "health", "done"
  backendStatus,
  problem,
  problemStatus,
  problemError,
  probReqs,       \* requestActiveProblem calls awaiting their response
  messages,
  isThinking,
  chatError,
  nreq,           \* streamChatRequest calls started so far
  req             \* per call: the state of streamChatRequest

chatVars == <<scope, submitsLeft, refreshLeft, now, initPc, backendStatus, problem,
              problemStatus, problemError, probReqs, messages, isThinking, chatError,
              nreq, req>>

\* the scrape orchestrator of the background service worker
VARIABLES
  sPc,            \* position of scrapeProblemFromTab and of the attempt it awaits
  clock,          \* Date.now() in the service worker, ms
  start,          \* const start = Date.now()
  attempt,        \* executeScrape calls made so far
  consulted,      \* the extractors the current attempt has consulted, with results
  scraped,        \* what the current attempt's page function returned
  sOutcome,       \* how scrapeProblemFromTab settled
  readyAt,        \* the attempt from which the page has something to extract
  readyBy,        \* the extractors that find it
  failAt          \* the attempt whose injection fails (0: none)

scrapeVars == <<sPc, clock, start, attempt, consulted, scraped, sOutcome, readyAt,
                readyBy, failAt>>

\* one run of the page function's extractors over one page
VARIABLES
  pagePc,         \* position of the run: "init", "structured", "dom", "network", "done"
  pathSegment,    \* window.location.pathname.split('/').filter(Boolean)[1] ?? ''
  nextData,       \* window.__NEXT_DATA__: nodes with their fields and values
  domTitle,       \* text of [data-cy="question-title"], <<>> when the node is missing
  graphTitle,     \* title of the GraphQL answer, <<>> when the request yields nothing
  structuredResult,
  domResult,
  pageResult      \* what scrapeProblemInPage returns

pageVars == <<pagePc, pathSegment, nextData, domTitle, graphTitle, structuredResult,
              domResult, pageResult>>

\* the messages between the panel, the service worker and the page scripts
VARIABLES
  tabs,           \* per browser tab: the page it shows and its loading status
  activeTab,      \* the active tab of the current window (0: none)
  navsLeft,       \* navigations and tab switches the user may still make
  calls,          \* the GET_ACTIVE_PROBLEM messages the panel sent, in the order sent
  inbox,          \* the other messages the listeners were handed
  signals,        \* ACTIVE_PROBLEM_CHANGED messages on their way to the panel
  ingestStatus,
  ingests         \* ingestProblem calls awaiting the backend

busVars == <<tabs, activeTab, navsLeft, calls, inbox, signals, ingestStatus, ingests>>

\* one call of waitForProblem in the page script
VARIABLES
  wPc,            \* "idle", "pending", "resolved", "rejected"
  wElapsed,        \* ms since the call (the program keeps no such field)
  readyState,     \* document.readyState
  extractable,    \* scrapeProblem() would return a Problem now
  observing,      \* the MutationObserver is connected
  listening,      \* readyListener is registered for readystatechange
  timerSet,       \* the timeout timer is set and not cleared
  wAttempts,      \* calls of attempt() so far
  wSettles,       \* calls of resolve or reject so far
  wOutcome,       \* how the promise settled
  dataAt,         \* wElapsed when the page's data became extractable (-1: not yet)
  eventsLeft      \* mutations and ready-state changes still to come

waitVars == <<wPc, wElapsed, readyState, extractable, observing, listening, timerSet,
              wAttempts, wSettles, wOutcome, dataAt, eventsLeft>>

VARIABLES
  parsePc,        \* "idle", "difficulty", "html", "normalized", "parsed"
  difficultyIn,   \* the argument of normalizeDifficulty
  body,           \* doc.body of the fragment given to parseHtmlContent
  difficulty,     \* what normalizeDifficulty returned
  parseResult     \* what parseHtmlContent returned

parseVars == <<parsePc, difficultyIn, body, difficulty, parseResult>>

VARIABLES
  stack,          \* the explicit stack of extractFromNextData, top last
  pops,           \* stack.pop() calls so far
  pushes          \* per object: how often it was put on the stack

walkVars == <<stack, pops, pushes>>

vars == <<chatVars, scrapeVars, pageVars, busVars, waitVars, parseVars, walkVars>>

\* what each part of the model leaves alone
notChat == <<scrapeVars, pageVars, busVars, waitVars, parseVars, walkVars>>
notScrape == <<chatVars, pageVars, busVars, waitVars, parseVars, walkVars>>
notPage == <<chatVars, scrapeVars, busVars, waitVars, parseVars, walkVars>>
notBus == <<scrapeVars, pageVars, waitVars, parseVars, walkVars>>
notWait == <<chatVars, scrapeVars, pageVars, busVars, parseVars, walkVars>>
notParse == <<chatVars, scrapeVars, pageVars, busVars, waitVars, walkVars>>
notWalk == <<chatVars, scrapeVars, busVars, waitVars, parseVars>>

\* problem titles the scraper may report
Titles == IF scope = "panel" THEN {"P1", "P2"} ELSE {"P1"}
Questions == {"q"}

Pending == [kind |-> "pending", val |-> NULL]

IdleReq ==
  [pc |-> "idle", text |-> <<>>, wire |-> <<>>, pending |-> <<>>, buffer |-> <<>>,
   finalPayload |-> NULL, handled |-> <<>>, outcome |-> Pending, aborted |-> FALSE,
   sawDone |-> FALSE, lockHeld |-> FALSE, assistantId |-> -1, nreads |-> 0]

\* ------------------------------------------------------- side panel helpers
\* a message also records, in owner, the call it was created for (0: none);
\* the program never reads that field
buildGreeting(title) ==
  [role |-> "assistant", content |-> <<"Ready to explore", title>>, timestamp |-> now,
   owner |-> 0]

\* prev.map(m => m.timestamp === assistantId ? {...m, content: c} : m)
setContent(msgs, assistantId, c) ==
  [i \in 1..Len(msgs) |->
     IF msgs[i].timestamp = assistantId THEN [msgs[i] EXCEPT !.content = c] ELSE msgs[i]]

\* the token goes to every assistant message
appendToken_anyAssistant(msgs, assistantId, token) ==
  [i \in 1..Len(msgs) |->
     IF msgs[i].role = "assistant"
       THEN [msgs[i] EXCEPT !.content = @ \o <<token>>] ELSE msgs[i]]

\* prev.map(m => m.timestamp === assistantId ? {...m, content: m.content + token} : m)
appendToken(msgs, assistantId, token) ==
  [i \in 1..Len(msgs) |->
     IF msgs[i].timestamp = assistantId
       THEN [msgs[i] EXCEPT !.content = @ \o <<token>>] ELSE msgs[i]]

\* the stream event handler the panel passes to streamChatRequest;
\* st carries the panel fields messages, isThinking, chatError
handleEvent(st, assistantId, event) ==
  CASE event.type = "token" ->
         [st EXCEPT !.messages = appendToken(@, assistantId, event.val)]
    [] event.type \in {"end", "cached"} ->
         [st EXCEPT !.messages = setContent(@, assistantId, <<event.val>>),
                    !.isThinking = FALSE]
    [] event.type = "error" ->
         [st EXCEPT !.chatError = event.val,
                    !.messages = setContent(@, assistantId, ErroredText),
                    !.isThinking = FALSE]
    [] OTHER -> st

\* --------------------------------------------------- streamChatRequest body
\* the loop goes on after an error event
thrownBy_never(event) == NULL

\* what "for (const line of lines)" throws after handing the event over:
\* throw new Error(event.error) on an error event
thrownBy(event) == IF event.type = "error" THEN event.val ELSE NULL

\* finalPayload after the event: set by an end or cached event
payloadAfter(event, finalPayload) ==
  IF event.type \in {"end", "cached"} THEN normalizeChatResponse(event.val)
  ELSE finalPayload

\* a loop that skips a line it cannot parse
processLine_tolerant(line, st, assistantId) ==
  IF trim(line) = <<>> \/ JSONparse(line) = SyntaxError THEN st
  ELSE [handleEvent(st, assistantId, JSONparse(line)) EXCEPT
          !.handled = Append(@, JSONparse(line)),
          !.finalPayload = payloadAfter(JSONparse(line), @),
          !.thrown = thrownBy(JSONparse(line))]

\* one iteration of "for (const line of lines)": skip blank, parse, hand to the
\* handler, record a terminal payload, throw on an error event
processLine(line, st, assistantId) ==
  IF trim(line) = <<>> THEN st
  ELSE LET event == JSONparse(line) IN
    IF event = SyntaxError THEN [st EXCEPT !.thrown = "SyntaxError"]
    ELSE [handleEvent(st, assistantId, event) EXCEPT
            !.handled = Append(@, event),
            !.finalPayload = payloadAfter(event, @),
            !.thrown = thrownBy(event)]

RECURSIVE processLines(_, _, _)
\* the for loop: lines in order, abandoned at the first throw
processLines(lines, st, assistantId) ==
  IF lines = <<>> \/ st.thrown # NULL THEN st
  ELSE processLines(Tail(lines), processLine(Head(lines), st, assistantId), assistantId)

\* the working state of one loop iteration, taken from the call r and the panel
LoopState(r) ==
  [handled |-> req[r].handled, finalPayload |-> req[r].finalPayload, thrown |-> NULL,
   messages |-> messages, isThinking |-> isThinking, chatError |-> chatError]

\* the panel after "await streamChatRequest(...)" settles: catch and finally
afterSettle(st, assistantId, outcome) ==
  IF outcome.kind = "rejected"
    THEN [st EXCEPT !.chatError = outcome.val,
                    !.messages = setContent(@, assistantId, FailedText),
                    !.isThinking = FALSE]
    ELSE [st EXCEPT !.isThinking = FALSE]

Rejected(text) == [kind |-> "rejected", val |-> text]
Resolved(payload) == [kind |-> "resolved", val |-> payload]

\* ------------------------------------------------------------ response bodies
\* the lines a body is made of, as bytes
LineSet ==
  { <<"t", "a">>, <<"t", HI, LO>>, <<"e", "A">>, <<"c", "B">>, <<"x", "m">>,
    <<"s">>, <<"u">>, <<SP>>, <<"t">> }

RECURSIVE join(_)
\* the lines joined by newlines
join(ls) == IF Len(ls) = 1 THEN ls[1] ELSE ls[1] \o <<NL>> \o join(Tail(ls))

\* every body of at most n lines, with and without the final newline
Bodies(lineSet, n) ==
  {<<>>} \cup
  UNION { { join(ls), join(ls) \o <<NL>> } :
            ls \in UNION { [1..k -> lineSet] : k \in 1..n } }

\* the bodies of a whole panel session: few, so that two calls can overlap
PanelBodies ==
  { <<"t", "a", NL, "e", "A">>, <<"e", "A", NL, "t", "a">>, <<"x", "m">> }

\* the bodies the backend may answer with
streams == IF scope = "panel" THEN PanelBodies ELSE Bodies(LineSet, MaxLines)

\* the sizes of the chunk the transport may deliver next: any cut of the bytes;
\* a panel session is cut at line ends only
ChunkSizes(w) ==
  IF scope = "panel"
    THEN { k \in 1..Len(w) : (w[k] = NL \/ k = Len(w)) /\ \A j \in 1..(k - 1) : w[j] # NL }
    ELSE 1..Len(w)

\* how far the clock of a run goes
ClockEnd == IF scope = "panel" THEN MaxClock ELSE 0

\* ------------------------------------------------------------------- actions
PanelState == [messages |-> messages, isThinking |-> isThinking, chatError |-> chatError]

\* initialise(): the health check has answered, the first problem request leaves
InitialiseHealth ==
  /\ initPc = "health"
  /\ \E status \in {"ready", "error", "missing"} : backendStatus' = status
  /\ initPc' = "done"
  /\ probReqs' = probReqs + 1
  /\ UNCHANGED <<notChat, scope, submitsLeft, refreshLeft, now, problem, problemStatus,
                 problemError, messages, isThinking, chatError, nreq, req>>

\* refreshProblem(), from the Refresh button or an ACTIVE_PROBLEM_CHANGED message
RefreshProblem ==
  /\ refreshLeft > 0
  /\ refreshLeft' = refreshLeft - 1
  /\ problemStatus' = "loading"
  /\ problemError' = NULL
  /\ probReqs' = probReqs + 1
  /\ UNCHANGED <<notChat, scope, submitsLeft, now, initPc, backendStatus, problem, messages,
                 isThinking, chatError, nreq, req>>

\* requestActiveProblem resolves: setProblem, 'ready', and the greeting effect
ProblemResolves ==
  /\ probReqs > 0
  /\ probReqs' = probReqs - 1
  /\ \E title \in Titles :
       /\ problem' = title
       /\ messages' = <<buildGreeting(title)>>
  /\ problemStatus' = "ready"
  /\ UNCHANGED <<notChat, scope, submitsLeft, refreshLeft, now, initPc, backendStatus,
                 problemError, isThinking, chatError, nreq, req>>

\* requestActiveProblem rejects: 'error' and the message
ProblemRejects ==
  /\ probReqs > 0
  /\ probReqs' = probReqs - 1
  /\ problemStatus' = "error"
  /\ problemError' = "Unable to capture the current problem."
  /\ UNCHANGED <<notChat, scope, submitsLeft, refreshLeft, now, initPc, backendStatus, problem,
                 messages, isThinking, chatError, nreq, req>>

\* the millisecond clock advances
Tick ==
  /\ now < ClockEnd
  /\ now' = now + 1
  /\ UNCHANGED <<notChat, scope, submitsLeft, refreshLeft, initPc, backendStatus, problem,
                 problemStatus, problemError, probReqs, messages, isThinking, chatError,
                 nreq, req>>

\* a guard that does not look at the problem
canSubmit_anyProblem ==
  /\ backendStatus = "ready"
  /\ ~isThinking

\* the condition under which the form lets a question through: the guard of
\* submitQuestion / handleSend together with the disabled controls
canSubmit ==
  /\ problem # NULL
  /\ problemStatus = "ready"
  /\ backendStatus = "ready"
  /\ ~isThinking

\* timestamp of the assistant message, read d ms after the user message's
assistantTimestamp(d) == now + d + 1

\* submitQuestion / handleSend up to the fetch
Submit ==
  /\ canSubmit
  /\ submitsLeft > 0
  /\ submitsLeft' = submitsLeft - 1
  /\ \E q \in Questions, d \in {0, 1} :
       LET userMessage == [role |-> "user", content |-> <<q>>, timestamp |-> now, owner |-> 0]
           assistantMessage ==
             [role |-> "assistant", content |-> <<>>, timestamp |-> assistantTimestamp(d),
              owner |-> nreq + 1]
       IN /\ now + d <= ClockEnd
          /\ now' = now + d
          /\ messages' = messages \o <<userMessage, assistantMessage>>
          /\ req' = [req EXCEPT ![nreq + 1] =
                       [IdleReq EXCEPT !.pc = "fetching",
                                       !.assistantId = assistantMessage.timestamp]]
  /\ nreq' = nreq + 1
  /\ isThinking' = TRUE
  /\ chatError' = NULL
  /\ UNCHANGED <<notChat, scope, refreshLeft, initPc, backendStatus, problem, problemStatus,
                 problemError, probReqs>>

\* finally { reader.releaseLock() }
releaseLock(rec) == [rec EXCEPT !.lockHeld = FALSE]

\* the call r settles with outcome o while the panel fields are st
Settle(r, st, o, rec) ==
  LET after == afterSettle(st, req[r].assistantId, o) IN
  /\ req' = [req EXCEPT ![r] = [releaseLock(rec) EXCEPT !.pc = "settled", !.outcome = o]]
  /\ messages' = after.messages
  /\ isThinking' = after.isThinking
  /\ chatError' = after.chatError

\* fetch was not given the signal
fetchObservesAbort_unwired(r) == FALSE

\* fetch was given options.signal: an abort errors the fetch and the body stream
fetchObservesAbort(r) == req[r].aborted

\* fetch rejects (backend unreachable), answers non-2xx, or has no body
FetchFails(r) ==
  /\ req[r].pc = "fetching"
  /\ ~fetchObservesAbort(r)
  /\ \E text \in {FailedToFetch, BackendFailed, NoStreaming} :
       Settle(r, PanelState, Rejected(text), req[r])
  /\ UNCHANGED <<notChat, scope, submitsLeft, refreshLeft, now, initPc, backendStatus, problem,
                 problemStatus, problemError, probReqs, nreq>>

\* fetch answers 2xx with a body: getReader()
FetchOk(r) ==
  /\ req[r].pc = "fetching"
  /\ ~fetchObservesAbort(r)
  /\ \E text \in streams :
       req' = [req EXCEPT ![r] = [@ EXCEPT !.pc = "reading", !.text = text,
                                            !.wire = text, !.lockHeld = TRUE]]
  /\ UNCHANGED <<notChat, scope, submitsLeft, refreshLeft, now, initPc, backendStatus, problem,
                 problemStatus, problemError, probReqs, messages, isThinking, chatError,
                 nreq>>

\* the fragment is dropped instead of kept
retained_dropped(lines) == <<>>

\* buffer = lines.pop() ?? '': the trailing fragment stays in the buffer
retained(lines) == Last(lines)

\* the loop body for one chunk: decode, split, keep the fragment, process the
\* complete lines; rec is the call, st the loop state
chunkStep(rec, st, value) ==
  LET dec == decodeFrom(rec.pending \o value)
      lines == split(rec.buffer \o dec.text)
      st1 == processLines(Front(lines), st, rec.assistantId)
  IN [rec |-> [rec EXCEPT !.pending = dec.pending,
                          !.buffer = retained(lines),
                          !.handled = st1.handled,
                          !.finalPayload = st1.finalPayload,
                          !.nreads = @ + 1],
      st |-> st1]

\* the call returns whatever finalPayload holds
settleOutcome_unchecked(finalPayload) ==
  [kind |-> "resolved", val |-> normalizeChatResponse(finalPayload)]

\* if (!finalPayload) throw ...; return finalPayload
settleOutcome(finalPayload) ==
  IF finalPayload = NULL THEN Rejected(NoFinalPayload) ELSE Resolved(finalPayload)

\* after the loop: flush the decoder, process a non-blank last fragment, settle
doneStep(rec, st) ==
  LET buffer == rec.buffer \o decodeFlush(rec.pending)
      st1 == IF trim(buffer) # <<>> THEN processLine(buffer, st, rec.assistantId) ELSE st
  IN [rec |-> [rec EXCEPT !.pending = <<>>, !.buffer = buffer,
                          !.handled = st1.handled,
                          !.finalPayload = st1.finalPayload,
                          !.sawDone = TRUE, !.nreads = @ + 1],
      st |-> st1,
      outcome |-> IF st1.thrown # NULL THEN Rejected(st1.thrown)
                  ELSE settleOutcome(st1.finalPayload)]

\* reader.read() yields a chunk
ReadChunk(r) ==
  /\ req[r].pc = "reading"
  /\ ~fetchObservesAbort(r)
  /\ req[r].wire # <<>>
  /\ \E k \in ChunkSizes(req[r].wire) :
       LET step == chunkStep([req[r] EXCEPT !.wire = SubSeq(@, k + 1, Len(@))],
                             LoopState(r), SubSeq(req[r].wire, 1, k))
       IN IF step.st.thrown # NULL
            THEN Settle(r, step.st, Rejected(step.st.thrown), step.rec)
            ELSE /\ req' = [req EXCEPT ![r] = step.rec]
                 /\ messages' = step.st.messages
                 /\ isThinking' = step.st.isThinking
                 /\ chatError' = step.st.chatError
  /\ UNCHANGED <<notChat, scope, submitsLeft, refreshLeft, now, initPc, backendStatus, problem,
                 problemStatus, problemError, probReqs, nreq>>

\* reader.read() yields done
ReadDone(r) ==
  /\ req[r].pc = "reading"
  /\ ~fetchObservesAbort(r)
  /\ req[r].wire = <<>>
  /\ LET step == doneStep(req[r], LoopState(r))
     IN Settle(r, step.st, step.outcome, step.rec)
  /\ UNCHANGED <<notChat, scope, submitsLeft, refreshLeft, now, initPc, backendStatus, problem,
                 problemStatus, problemError, probReqs, nreq>>

\* the caller's AbortSignal fires: the fetch or the body stream is errored
Abort(r) ==
  /\ req[r].pc \in {"fetching", "reading"}
  /\ ~req[r].aborted
  /\ req' = [req EXCEPT ![r].aborted = TRUE]
  /\ UNCHANGED <<notChat, scope, submitsLeft, refreshLeft, now, initPc, backendStatus, problem,
                 problemStatus, problemError, probReqs, messages, isThinking, chatError,
                 nreq>>

\* the pending fetch or read rejects with the abort; finally releases the lock
AbortRejects(r) ==
  /\ req[r].pc \in {"fetching", "reading"}
  /\ fetchObservesAbort(r)
  /\ Settle(r, PanelState, Rejected(AbortError), req[r])
  /\ UNCHANGED <<notChat, scope, submitsLeft, refreshLeft, now, initPc, backendStatus, problem,
                 problemStatus, problemError, probReqs, nreq>>

Reqs == 1..MaxSubmits

\* ------------------------------------------------------ scrape orchestrator
\* scrapeProblemFromTab(tabId, timeoutMs = 12_000)
timeoutMs == 12000
\* setTimeout(resolve, 300)
pollDelayMs == 300

CouldNotDetect == "Could not detect a LeetCode problem on this page."
LastError == "chrome.runtime.lastError"

\* null where a candidate is expected
NoCandidate == <<>>

\* how scrapeProblemFromTab stands: the Problem it returned or the text it threw
ScrapePending == [kind |-> "pending", problem |-> NoCandidate, error |-> NULL]
ScrapeResolved(p) == [kind |-> "resolved", problem |-> p, error |-> NULL]
ScrapeRejected(text) == [kind |-> "rejected", problem |-> NoCandidate, error |-> text]

\* the extractors of the page function
Extractors == {"structured", "dom", "network"}

\* what extractor e finds in the page at attempt n: a candidate naming the
\* extractor and the attempt, or null while the page is not ready for it
extract(e, n) == IF e \in readyBy /\ n >= readyAt THEN <<e, n>> ELSE NoCandidate

extractFromNextData(n) == extract("structured", n)
extractFromDom(n) == extract("dom", n)
fetchQuestionViaGraphQL(n) == extract("network", n)

consult(log, e, n) == Append(log, [extractor |-> e, result |-> extract(e, n)])

\* DOM before structured data
parsed_domFirst(n) ==
  IF extractFromDom(n) # NoCandidate
    THEN [value |-> extractFromDom(n), consulted |-> consult(<<>>, "dom", n)]
    ELSE [value |-> extractFromNextData(n),
          consulted |-> consult(consult(<<>>, "dom", n), "structured", n)]

\* const parsed = extractFromNextData() ?? extractFromDom()
parsed(n) ==
  IF extractFromNextData(n) # NoCandidate
    THEN [value |-> extractFromNextData(n), consulted |-> consult(<<>>, "structured", n)]
    ELSE [value |-> extractFromDom(n),
          consulted |-> consult(consult(<<>>, "structured", n), "dom", n)]

\* the content script's scrapeProblem: extractFromNextData() ?? extractFromDom()
scrapeProblem(n) == parsed(n).value

\* the deadline passes one poll interval early
withinTimeout_early(elapsed) == elapsed + pollDelayMs < timeoutMs

\* Date.now() - start < timeoutMs
withinTimeout(elapsed) == elapsed < timeoutMs

\* how long the network step of an attempt may take
Latencies == { k * pollDelayMs : k \in 0..MaxSlow }
\* a poll timer that may fire at once
TimerDelays_early == { k * pollDelayMs : k \in 0..MaxLate }

\* when the poll timer fires, counted from its start
TimerDelays == { pollDelayMs + k * pollDelayMs : k \in 0..MaxLate }

\* the while condition: another attempt, or the final throw
LoopCheck ==
  /\ sPc = "loop"
  /\ IF withinTimeout(clock - start)
       THEN /\ sPc' = "inject"
            /\ attempt' = attempt + 1
            /\ consulted' = <<>>
            /\ scraped' = NoCandidate
            /\ UNCHANGED sOutcome
       ELSE /\ sPc' = "rejected"
            /\ sOutcome' = ScrapeRejected(CouldNotDetect)
            /\ UNCHANGED <<attempt, consulted, scraped>>
  /\ UNCHANGED <<notScrape, clock, start, readyAt, readyBy, failAt>>

\* executeScript calls back with chrome.runtime.lastError set: executeScrape
\* rejects and so does scrapeProblemFromTab
InjectionFails ==
  /\ sPc = "inject"
  /\ attempt = failAt
  /\ sPc' = "rejected"
  /\ sOutcome' = ScrapeRejected(LastError)
  /\ UNCHANGED <<notScrape, clock, start, attempt, consulted, scraped, readyAt, readyBy,
                 failAt>>

\* scrapeProblemInPage up to its first await: structured data, then the DOM;
\* a candidate is returned at once, otherwise the GraphQL request leaves
PageExtracts ==
  /\ sPc = "inject"
  /\ attempt # failAt
  /\ consulted' = parsed(attempt).consulted
  /\ scraped' = parsed(attempt).value
  /\ sPc' = IF parsed(attempt).value # NoCandidate THEN "callback" ELSE "graphql"
  /\ UNCHANGED <<notScrape, clock, start, attempt, sOutcome, readyAt, readyBy, failAt>>

\* the GraphQL request answers (or fails, which counts as null) after some time
GraphQLAnswers ==
  /\ sPc = "graphql"
  /\ \E d \in Latencies : clock' = clock + d
  /\ consulted' = consult(consulted, "network", attempt)
  /\ scraped' = fetchQuestionViaGraphQL(attempt)
  /\ sPc' = "callback"
  /\ UNCHANGED <<notScrape, start, attempt, sOutcome, readyAt, readyBy, failAt>>

\* the executeScript callback: executeScrape resolves, and the loop returns the
\* problem or starts the poll timer
InjectionReturns ==
  /\ sPc = "callback"
  /\ IF scraped # NoCandidate
       THEN /\ sPc' = "resolved"
            /\ sOutcome' = ScrapeResolved(scraped)
       ELSE /\ sPc' = "delay"
            /\ UNCHANGED sOutcome
  /\ UNCHANGED <<notScrape, clock, start, attempt, consulted, scraped, readyAt, readyBy,
                 failAt>>

\* the poll timer fires
TimerFires ==
  /\ sPc = "delay"
  /\ \E d \in TimerDelays : clock' = clock + d
  /\ sPc' = "loop"
  /\ UNCHANGED <<notScrape, start, attempt, consulted, scraped, sOutcome, readyAt,
                 readyBy, failAt>>

\* ------------------------------------------------------- the page extractors
\* characters of titles, slugs and path segments: a lower-case letter, an
\* upper-case letter, a character that is neither letter nor digit
Lower(c) ==
  IF c = "A" THEN "a" ELSE IF c = "C" THEN "c" ELSE IF c = "E" THEN "e" ELSE c
IsAlnum(c) == c \in {"a", "b"}

RECURSIVE dashRuns(_)
\* .replace(/[^a-z0-9]+/g, '-')
dashRuns(s) ==
  IF s = <<>> THEN <<>>
  ELSE IF IsAlnum(Head(s)) THEN <<Head(s)>> \o dashRuns(Tail(s))
  ELSE IF Len(s) > 1 /\ ~IsAlnum(s[2]) THEN dashRuns(Tail(s))
  ELSE <<"-">> \o dashRuns(Tail(s))

\* .replace(/^-|-$/g, '')
stripDashes(s) ==
  LET a == IF s # <<>> /\ Head(s) = "-" THEN Tail(s) ELSE s
  IN IF a # <<>> /\ Last(a) = "-" THEN Front(a) ELSE a

toSlug(value) == stripDashes(dashRuns([i \in 1..Len(value) |-> Lower(value[i])]))

currentSlug == toSlug(pathSegment)

\* a field that is not there
Undefined == <<"undefined">>

\* null where a ParsedProblem is expected; node names the object of
\* window.__NEXT_DATA__ a problem was built from (0: none)
NoProblem == [ok |-> FALSE, title |-> <<>>, slug |-> <<>>, node |-> 0]

\* typeof title === 'string' && (typeof content === 'string' || typeof body === 'string')
isCandidate(node) == node.title # Undefined /\ node.content # Undefined

\* toSlug(candidate.titleSlug ?? candidate.slug ?? title)
candidateSlugOf(node) ==
  toSlug(IF node.titleSlug # Undefined THEN node.titleSlug ELSE node.title)

\* the candidate is dropped when both slugs are non-empty and differ
slugMismatch(slug, candidateSlug) ==
  slug # <<>> /\ candidateSlug # <<>> /\ candidateSlug # slug

extractFromCandidate(id, slug) ==
  LET candidate == nextData[id] IN
  IF candidate.title = <<>> THEN NoProblem
  ELSE IF candidate.content = <<>> THEN NoProblem
  ELSE IF slugMismatch(slug, candidateSlugOf(candidate)) THEN NoProblem
  ELSE [ok |-> TRUE, title |-> candidate.title,
        slug |-> IF candidateSlugOf(candidate) # <<>> THEN candidateSlugOf(candidate)
                 ELSE slug,
        node |-> id]

RECURSIVE walk(_, _)
\* while (stack.length > 0): pop, try a candidate, push the values
walk(st, slug) ==
  IF st = <<>> THEN NoProblem
  ELSE LET id == Last(st)
           found == IF isCandidate(nextData[id]) THEN extractFromCandidate(id, slug)
                    ELSE NoProblem
       IN IF found.ok THEN found
          ELSE walk(Front(st) \o nextData[id].values, slug)

\* extractFromNextData(): the traversal from the root object
structuredData == walk(<<1>>, currentSlug)

\* the same traversal, one iteration of the while loop at a time
\* stack.push(value) for every value of the sequence
RECURSIVE pushAll(_, _)
pushAll(counts, values) ==
  IF values = <<>> THEN counts
  ELSE pushAll([counts EXCEPT ![Head(values)] = @ + 1], Tail(values))

\* the popped node stays on the stack
afterPop_kept(st) == st

\* const node = stack.pop()
afterPop(st) == Front(st)

\* const stack = [data]
TraversalStarts ==
  /\ pagePc = "init"
  /\ stack' = <<1>>
  /\ pops' = 0
  /\ pushes' = [id \in DOMAIN nextData |-> IF id = 1 THEN 1 ELSE 0]
  /\ pagePc' = "walking"
  /\ UNCHANGED <<notWalk, pathSegment, nextData, domTitle, graphTitle, structuredResult,
                 domResult, pageResult>>

\* one iteration: pop a node, return the Problem of a candidate that passes,
\* otherwise push the node's values
TraversalStep ==
  /\ pagePc = "walking"
  /\ stack # <<>>
  /\ pops' = pops + 1
  /\ LET id == Last(stack)
         found == IF isCandidate(nextData[id]) THEN extractFromCandidate(id, currentSlug)
                  ELSE NoProblem
     IN IF found.ok
          THEN /\ structuredResult' = found
               /\ pagePc' = "structured"
               /\ stack' = afterPop(stack)
               /\ UNCHANGED pushes
          ELSE /\ stack' = afterPop(stack) \o nextData[id].values
               /\ pushes' = pushAll(pushes, nextData[id].values)
               /\ UNCHANGED <<structuredResult, pagePc>>
  /\ UNCHANGED <<notWalk, pathSegment, nextData, domTitle, graphTitle, domResult, pageResult>>

\* the stack is empty: return null
TraversalEnds ==
  /\ pagePc = "walking"
  /\ stack = <<>>
  /\ structuredResult' = NoProblem
  /\ pagePc' = "structured"
  /\ UNCHANGED <<notWalk, walkVars, pathSegment, nextData, domTitle, graphTitle, domResult,
                 pageResult>>

\* extractFromDom(): the title node's text, the slug derived from it
domData ==
  IF domTitle = <<>> THEN NoProblem
  ELSE [ok |-> TRUE, title |-> domTitle, slug |-> toSlug(domTitle), node |-> 0]

\* fetchQuestionViaGraphQL(slug) and the Problem built from its answer
graphData ==
  IF currentSlug = <<>> \/ graphTitle = <<>> THEN NoProblem
  ELSE [ok |-> TRUE, title |-> graphTitle, slug |-> currentSlug, node |-> 0]

RunStructured ==
  /\ pagePc = "init"
  /\ structuredResult' = structuredData
  /\ pagePc' = "structured"
  /\ UNCHANGED <<notPage, pathSegment, nextData, domTitle, graphTitle, domResult,
                 pageResult>>

\* ?? : the DOM is read only when structured data gave null
RunDom ==
  /\ pagePc = "structured"
  /\ IF structuredResult.ok
       THEN /\ pageResult' = structuredResult
            /\ pagePc' = "done"
            /\ UNCHANGED domResult
       ELSE /\ domResult' = domData
            /\ pagePc' = "dom"
            /\ UNCHANGED pageResult
  /\ UNCHANGED <<notPage, pathSegment, nextData, domTitle, graphTitle, structuredResult>>

\* if (parsed) return parsed; otherwise the GraphQL fallback
RunNetwork ==
  /\ pagePc = "dom"
  /\ pageResult' = IF domResult.ok THEN domResult ELSE graphData
  /\ pagePc' = "done"
  /\ UNCHANGED <<notPage, pathSegment, nextData, domTitle, graphTitle, structuredResult,
                 domResult>>

\* ---------------------------------------------- messages and their listeners
Tabs == {1, 2}
\* what a tab shows: a page that is no problem page, or the page of a problem
Pages == {"other", "P1", "P2"}

\* url.startsWith('https://leetcode.com/problems/')
isProblemUrl(url) == url # "other"

NoActiveTab == "No active tab detected."
InjectionError == "Cannot access contents of the page."
UnableToCapture == "Unable to capture the current problem."

\* the response objects of the listeners
NoResponse == [success |-> FALSE, problem |-> NULL, error |-> NULL]
Success(p) == [success |-> TRUE, problem |-> p, error |-> NULL]
Failure(text) == [success |-> FALSE, problem |-> NULL, error |-> text]

\* a GET_ACTIVE_PROBLEM message: where it is, what the listener returned
\* (pending: the listener returned true), how often sendResponse was called and
\* with what; cause records what went wrong on the way (the program has no
\* such field)
NewCall ==
  [pc |-> "sent", cause |-> NULL, tab |-> 0, pending |-> FALSE, answers |-> 0,
   response |-> NoResponse]

\* sendResponse(response): the port delivers the first response only
sendResponse(rec, response) ==
  [rec EXCEPT !.answers = @ + 1,
              !.response = IF rec.answers = 0 THEN response ELSE @]

\* what a listener does with a message before it returns: the value it
\* returns and the responses it has sent by then
ListenerNames == {"background", "pageScript", "content"}
MessageTypes ==
  {"OPEN_SIDE_PANEL", "GET_ACTIVE_PROBLEM", "SCRAPE_PROBLEM", "getProblemInfo",
   "other", "primitive"}

onMessage(listener, type) ==
  CASE listener = "background" ->
         IF type \in {"OPEN_SIDE_PANEL", "GET_ACTIVE_PROBLEM"}
           THEN [pending |-> TRUE, answers |-> 0, pc |-> "async"]
           ELSE [pending |-> FALSE, answers |-> 0, pc |-> "done"]
    [] listener = "pageScript" ->
         IF type = "SCRAPE_PROBLEM"
           THEN [pending |-> TRUE, answers |-> 0, pc |-> "async"]
           ELSE [pending |-> FALSE, answers |-> 0, pc |-> "done"]
    [] listener = "content" ->
         IF type = "getProblemInfo"
           THEN [pending |-> TRUE, answers |-> 1, pc |-> "done"]
           ELSE [pending |-> TRUE, answers |-> 0, pc |-> "done"]

\* a message is handed to a listener, which runs up to its return
Deliver ==
  /\ Len(inbox) < MaxMessages
  /\ \E listener \in ListenerNames, type \in MessageTypes \ {"GET_ACTIVE_PROBLEM"} :
       LET r == onMessage(listener, type) IN
       inbox' = Append(inbox, [listener |-> listener, type |-> type, pc |-> r.pc,
                               pending |-> r.pending, answers |-> r.answers])
  /\ UNCHANGED <<notBus, chatVars, tabs, activeTab, navsLeft, calls, signals, ingestStatus,
                 ingests>>

\* openSidePanelForCurrentTab() settles, or waitForProblem settles: the
\* continuation calls sendResponse
AsyncAnswers(i) ==
  /\ inbox[i].pc = "async"
  /\ inbox' = [inbox EXCEPT ![i].pc = "done", ![i].answers = @ + 1]
  /\ UNCHANGED <<notBus, chatVars, tabs, activeTab, navsLeft, calls, signals, ingestStatus,
                 ingests>>

\* the ingest effect: it runs when problem or backendStatus was set
ingestStarts(p, status) == p # NULL /\ status = "ready"

\* initialise(): the health check has answered, requestActiveProblem sends
\* GET_ACTIVE_PROBLEM
Initialise ==
  /\ initPc = "health"
  /\ initPc' = "done"
  /\ calls' = Append(calls, NewCall)
  /\ \E status \in {"ready", "error", "missing"} :
       /\ backendStatus' = status
       /\ IF ingestStarts(problem, status)
            THEN ingestStatus' = "syncing" /\ chatError' = NULL /\ ingests' = ingests + 1
            ELSE UNCHANGED <<ingestStatus, chatError, ingests>>
  /\ UNCHANGED <<notBus, scope, submitsLeft, refreshLeft, now, problem, problemStatus,
                 problemError, probReqs, messages, isThinking, nreq, req, tabs, activeTab,
                 navsLeft, inbox, signals>>

\* refreshProblem() up to the await
refreshProblem ==
  /\ Len(calls) < MaxCalls
  /\ problemStatus' = "loading"
  /\ problemError' = NULL
  /\ ingestStatus' = "idle"
  /\ calls' = Append(calls, NewCall)
  /\ UNCHANGED <<notBus, scope, submitsLeft, now, initPc, backendStatus, problem, probReqs,
                 messages, isThinking, chatError, nreq, req, tabs, activeTab, navsLeft,
                 inbox, ingests>>

\* the Refresh button
RefreshClicked ==
  /\ refreshLeft > 0
  /\ refreshLeft' = refreshLeft - 1
  /\ refreshProblem
  /\ UNCHANGED signals

\* handleRuntimeMessage: the panel is handed an ACTIVE_PROBLEM_CHANGED message
SignalArrives ==
  /\ signals # <<>>
  /\ signals' = Tail(signals)
  /\ Head(signals).type = "ACTIVE_PROBLEM_CHANGED"
  /\ refreshProblem
  /\ UNCHANGED refreshLeft

\* how the promise of requestActiveProblem settles in the sendMessage callback
requestOutcome(lastError, response) ==
  IF lastError # NULL THEN Rejected(lastError)
  ELSE IF response.success /\ response.problem # NULL THEN Resolved(response.problem)
  ELSE Rejected(IF response.error # NULL THEN response.error ELSE UnableToCapture)

\* the catch block swallows the error
afterRejection_swallowed(message) ==
  [problemStatus |-> problemStatus, problemError |-> problemError]

\* catch (error): setProblemStatus('error'); setProblemError(message)
afterRejection(message) == [problemStatus |-> "error", problemError |-> message]

\* the continuation of initialise / refreshProblem after the await, with the
\* effects that setProblem triggers (greeting, ingest)
continueWith(outcome) ==
  IF outcome.kind = "resolved"
    THEN /\ problem' = outcome.val
         /\ problemStatus' = "ready"
         /\ messages' = <<buildGreeting(outcome.val)>>
         /\ IF ingestStarts(outcome.val, backendStatus)
              THEN ingestStatus' = "syncing" /\ chatError' = NULL /\ ingests' = ingests + 1
              ELSE UNCHANGED <<ingestStatus, chatError, ingests>>
         /\ UNCHANGED problemError
    ELSE /\ problemStatus' = afterRejection(outcome.val).problemStatus
         /\ problemError' = afterRejection(outcome.val).problemError
         /\ UNCHANGED <<problem, messages, ingestStatus, chatError, ingests>>

\* sendMessage finds no receiving end: the callback runs with lastError set
SendFails(c) ==
  /\ calls[c].pc = "sent"
  /\ calls' = [calls EXCEPT ![c].pc = "settled", ![c].cause = "send"]
  /\ continueWith(requestOutcome(LastError, NoResponse))
  /\ UNCHANGED <<notBus, scope, submitsLeft, refreshLeft, now, initPc, backendStatus,
                 probReqs, isThinking, nreq, req, tabs, activeTab, navsLeft, inbox,
                 signals>>

\* the service worker's listener: chrome.tabs.query is started, return true
BackgroundReceives(c) ==
  /\ calls[c].pc = "sent"
  /\ LET r == onMessage("background", "GET_ACTIVE_PROBLEM") IN
     calls' = [calls EXCEPT ![c].pc = "query", ![c].pending = r.pending,
                            ![c].answers = r.answers]
  /\ UNCHANGED <<notBus, chatVars, tabs, activeTab, navsLeft, inbox, signals, ingestStatus,
                 ingests>>

\* the callback of chrome.tabs.query
TabsQueried(c) ==
  /\ calls[c].pc = "query"
  /\ \/ calls' = [calls EXCEPT ![c] = [sendResponse(@, Failure(LastError))
                                         EXCEPT !.pc = "answered", !.cause = "query"]]
     \/ /\ activeTab = 0
        /\ calls' = [calls EXCEPT ![c] = [sendResponse(@, Failure(NoActiveTab))
                                            EXCEPT !.pc = "answered", !.cause = "noTab"]]
     \/ /\ activeTab # 0
        /\ calls' = [calls EXCEPT ![c].pc = "scrape", ![c].tab = activeTab]
  /\ UNCHANGED <<notBus, chatVars, tabs, activeTab, navsLeft, inbox, signals, ingestStatus,
                 ingests>>

\* scrapeProblemFromTab settles: .then / .catch call sendResponse
ScrapeSettles(c) ==
  /\ calls[c].pc = "scrape"
  /\ \/ /\ isProblemUrl(tabs[calls[c].tab].url)
        /\ calls' = [calls EXCEPT ![c] = [sendResponse(@, Success(tabs[calls[c].tab].url))
                                            EXCEPT !.pc = "answered"]]
     \/ calls' = [calls EXCEPT ![c] = [sendResponse(@, Failure(InjectionError))
                                         EXCEPT !.pc = "answered", !.cause = "injection"]]
     \/ calls' = [calls EXCEPT ![c] = [sendResponse(@, Failure(CouldNotDetect))
                                         EXCEPT !.pc = "answered", !.cause = "timeout"]]
  /\ UNCHANGED <<notBus, chatVars, tabs, activeTab, navsLeft, inbox, signals, ingestStatus,
                 ingests>>

\* the response reaches the panel: the callback of sendMessage settles the
\* promise and initialise / refreshProblem continues
ResponseArrives(c) ==
  /\ calls[c].pc = "answered"
  /\ calls' = [calls EXCEPT ![c].pc = "settled"]
  /\ continueWith(requestOutcome(NULL, calls[c].response))
  /\ UNCHANGED <<notBus, scope, submitsLeft, refreshLeft, now, initPc, backendStatus,
                 probReqs, isThinking, nreq, req, tabs, activeTab, navsLeft, inbox,
                 signals>>

\* ingestProblem(problem) resolves
IngestResolves ==
  /\ ingests > 0
  /\ ingests' = ingests - 1
  /\ ingestStatus' = "synced"
  /\ UNCHANGED <<notBus, chatVars, tabs, activeTab, navsLeft, calls, inbox, signals>>

\* the ingest failure changes more than the warning
afterIngestFailure_blocking(text) ==
  [ingestStatus |-> "error", chatError |-> text, problemStatus |-> "error"]

\* .catch of the ingest effect: setIngestStatus('error'); setChatError(message)
afterIngestFailure(text) ==
  [ingestStatus |-> "error", chatError |-> text, problemStatus |-> problemStatus]

\* ingestProblem(problem) rejects
IngestRejects ==
  /\ ingests > 0
  /\ ingests' = ingests - 1
  /\ \E text \in {FailedToFetch, BackendFailed} :
       /\ ingestStatus' = afterIngestFailure(text).ingestStatus
       /\ chatError' = afterIngestFailure(text).chatError
       /\ problemStatus' = afterIngestFailure(text).problemStatus
  /\ UNCHANGED <<notBus, scope, submitsLeft, refreshLeft, now, initPc, backendStatus, problem,
                 problemError, probReqs, messages, isThinking, nreq, req, tabs, activeTab,
                 navsLeft, calls, inbox, signals>>

\* chrome.tabs.onUpdated: whether the listener broadcasts
notifies_anyStatus(changeInfo, url) == isProblemUrl(url)

notifies(changeInfo, url) == changeInfo.status = "complete" /\ isProblemUrl(url)

\* the listener of chrome.tabs.onUpdated
onUpdated(tabId, changeInfo, tab) ==
  IF notifies(changeInfo, tab.url)
    THEN Append(signals, [type |-> "ACTIVE_PROBLEM_CHANGED", tabId |-> tabId])
    ELSE signals

\* a tab starts to load a page (another one, or the same again); onUpdated
\* reports status 'loading'
Navigate(t) ==
  /\ navsLeft > 0
  /\ navsLeft' = navsLeft - 1
  /\ \E url \in Pages :
       /\ tabs' = [tabs EXCEPT ![t] = [url |-> url, status |-> "loading"]]
       /\ signals' = onUpdated(t, [status |-> "loading"], tabs'[t])
  /\ UNCHANGED <<notBus, chatVars, activeTab, calls, inbox, ingestStatus, ingests>>

\* the tab has loaded its page; onUpdated reports status 'complete'
LoadCompletes(t) ==
  /\ tabs[t].status = "loading"
  /\ tabs' = [tabs EXCEPT ![t].status = "complete"]
  /\ signals' = onUpdated(t, [status |-> "complete"], tabs'[t])
  /\ UNCHANGED <<notBus, chatVars, activeTab, navsLeft, calls, inbox, ingestStatus, ingests>>

\* the user activates another tab, or the window loses its active tab
SwitchTab ==
  /\ navsLeft > 0
  /\ navsLeft' = navsLeft - 1
  /\ \E t \in (Tabs \cup {0}) \ {activeTab} : activeTab' = t
  /\ UNCHANGED <<notBus, chatVars, tabs, calls, inbox, signals, ingestStatus, ingests>>

\* ------------------------------------------------------------ waitForProblem
QUERY_TIMEOUT_MS == 12000

\* the time passes in steps of TickMs
TickMs == QUERY_TIMEOUT_MS \div MaxTicks

\* how long a page is followed after the call
WaitHorizon == 2 * QUERY_TIMEOUT_MS

\* the timer is set for twice the timeout
timerDelay_doubled(ms) == 2 * ms

\* window.setTimeout(..., timeoutMs)
timerDelay(ms) == ms

\* cleanup() that leaves the observer connected
cleanup_keepsObserver == [observing |-> observing, listening |-> FALSE, timerSet |-> FALSE]

\* cleanup(): observer.disconnect(), removeEventListener, clearTimeout
cleanup == [observing |-> FALSE, listening |-> FALSE, timerSet |-> FALSE]

\* resolve(...) or reject(...): the first call settles the promise, a later
\* call changes nothing
settle(pc, outcome) ==
  /\ wSettles' = wSettles + 1
  /\ IF wPc \in {"resolved", "rejected"}
       THEN UNCHANGED <<wPc, wOutcome>>
       ELSE wPc' = pc /\ wOutcome' = outcome

\* attempt(): scrapeProblem(); a Problem resolves the promise after cleanup()
attemptNow(found) ==
  /\ wAttempts' = wAttempts + 1
  /\ IF found
       THEN /\ observing' = cleanup.observing
            /\ listening' = cleanup.listening
            /\ timerSet' = cleanup.timerSet
            /\ settle("resolved", ScrapeResolved(<<"page", wElapsed>>))
       ELSE UNCHANGED <<wPc, wOutcome, observing, listening, timerSet, wSettles>>

\* waitForProblem(timeoutMs) is called: the observer and the listener are
\* registered, the timer is set, and the first attempt runs
WaitStarts ==
  /\ wPc = "idle"
  /\ wAttempts' = wAttempts + 1
  /\ IF extractable
       THEN /\ observing' = cleanup.observing
            /\ listening' = cleanup.listening
            /\ timerSet' = cleanup.timerSet
            /\ settle("resolved", ScrapeResolved(<<"page", wElapsed>>))
       ELSE /\ wPc' = "pending"
            /\ observing' = TRUE
            /\ listening' = TRUE
            /\ timerSet' = TRUE
            /\ UNCHANGED <<wOutcome, wSettles>>
  /\ UNCHANGED <<notWait, wElapsed, readyState, extractable, dataAt, eventsLeft>>

\* the page's data becomes extractable without a child-list mutation: a text
\* node or an attribute changes, a script assigns window.__NEXT_DATA__
DataArrives ==
  /\ wPc = "pending"
  /\ ~extractable
  /\ wElapsed < QUERY_TIMEOUT_MS
  /\ extractable' = TRUE
  /\ dataAt' = wElapsed
  /\ UNCHANGED <<notWait, wPc, wElapsed, readyState, observing, listening, timerSet,
                 wAttempts, wSettles, wOutcome, eventsLeft>>

\* nodes are added to or removed from the document, with or without the
\* problem's data: the MutationObserver callback runs attempt()
Mutation ==
  /\ wPc # "idle"
  /\ eventsLeft > 0
  /\ eventsLeft' = eventsLeft - 1
  /\ \E found \in {extractable, TRUE} :
       /\ extractable' = found
       /\ dataAt' = IF found /\ ~extractable THEN wElapsed ELSE dataAt
       /\ IF observing
            THEN attemptNow(found)
            ELSE UNCHANGED <<wPc, wOutcome, observing, listening, timerSet, wAttempts,
                             wSettles>>
  /\ UNCHANGED <<notWait, wElapsed, readyState>>

\* document.readyState moves on: readyListener runs attempt() when the state
\* is 'interactive' or 'complete'
ReadyStateChanges ==
  /\ wPc # "idle"
  /\ eventsLeft > 0
  /\ eventsLeft' = eventsLeft - 1
  /\ readyState # "complete"
  /\ readyState' = IF readyState = "loading" THEN "interactive" ELSE "complete"
  /\ IF listening /\ readyState' \in {"interactive", "complete"}
       THEN attemptNow(extractable)
       ELSE UNCHANGED <<wPc, wOutcome, observing, listening, timerSet, wAttempts, wSettles>>
  /\ UNCHANGED <<notWait, wElapsed, extractable, dataAt>>

\* time passes; a timer that is due runs before more time passes
TimePasses ==
  /\ wPc # "idle"
  /\ ~timerSet \/ wElapsed + TickMs <= timerDelay(QUERY_TIMEOUT_MS)
  /\ wElapsed + TickMs <= WaitHorizon
  /\ wElapsed' = wElapsed + TickMs
  /\ UNCHANGED <<notWait, wPc, readyState, extractable, observing, listening, timerSet,
                 wAttempts, wSettles, wOutcome, dataAt, eventsLeft>>

\* the timer's callback: cleanup() and reject
TimeoutFires ==
  /\ timerSet
  /\ wElapsed >= timerDelay(QUERY_TIMEOUT_MS)
  /\ observing' = cleanup.observing
  /\ listening' = cleanup.listening
  /\ timerSet' = cleanup.timerSet
  /\ settle("rejected", ScrapeRejected(CouldNotDetect))
  /\ UNCHANGED <<notWait, wElapsed, readyState, extractable, dataAt, eventsLeft, wAttempts>>

\* ------------------------------------- normalizeDifficulty, parseHtmlContent
\* A JavaScript value of type string | undefined | null
Str(t) == [kind |-> "string", text |-> t]
UndefinedValue == [kind |-> "undefined", text |-> <<>>]
NullValue == [kind |-> "null", text |-> <<>>]

Easy == <<"E", "a", "s", "y">>
Medium == <<"M", "e", "d", "i", "u", "m">>
Hard == <<"H", "a", "r", "d">>

\* without value.trim(): the label is compared as it came
normalizeDifficulty_untrimmed(value) ==
  IF value.kind # "string" \/ value.text = <<>> THEN Medium
  ELSE LET normalized == value.text
       IN IF normalized \in {Easy, Medium, Hard} THEN normalized ELSE Medium

\* if (!value) return 'Medium'; normalized = value.trim(); one of the three
\* labels is returned as it is, anything else is 'Medium'
normalizeDifficulty(value) ==
  IF value.kind # "string" \/ value.text = <<>> THEN Medium
  ELSE LET normalized == trim(value.text)
       IN IF normalized \in {Easy, Medium, Hard} THEN normalized ELSE Medium

\* String.prototype.toLowerCase()
toLowerCase(s) == [i \in 1..Len(s) |-> Lower(s[i])]
\* String.prototype.startsWith(prefix)
startsWith(s, prefix) == Len(s) >= Len(prefix) /\ SubSeq(s, 1, Len(prefix)) = prefix
\* String.prototype.includes(part)
includes(s, part) ==
  \E i \in 1..(Len(s) + 1) :
    i + Len(part) - 1 <= Len(s) /\ SubSeq(s, i, i + Len(part) - 1) = part

RECURSIVE joinBy(_, _)
\* Array.prototype.join(separator)
joinBy(parts, separator) ==
  IF parts = <<>> THEN <<>>
  ELSE IF Len(parts) = 1 THEN parts[1]
  ELSE parts[1] \o separator \o joinBy(Tail(parts), separator)

\* A parsed fragment is the sequence of child nodes of doc.body.  A node is
\* [tag, kids]: a text node has tag "#text"; kids are the nodes below an
\* element, each [tag, text] with the text it contains.
TextTag == "#text"
Leaf(tag, text) == [tag |-> tag, text |-> text]
TextNode(text) == [tag |-> TextTag, kids |-> <<Leaf(TextTag, text)>>]
Element(tag, kids) == [tag |-> tag, kids |-> kids]

RECURSIVE concatText(_)
concatText(kids) == IF kids = <<>> THEN <<>> ELSE Head(kids).text \o concatText(Tail(kids))
\* Node.textContent
textContent(node) == concatText(node.kids)

RECURSIVE bodyText(_)
\* body.textContent
bodyText(nodes) ==
  IF nodes = <<>> THEN <<>> ELSE textContent(Head(nodes)) \o bodyText(Tail(nodes))

isElement(node) == node.tag # TextTag
\* Array.from(body.children): the element children, text nodes left out
children(nodes) == SelectSeq(nodes, isElement)

exampleWord == <<"e", "x", "a", "m", "p", "l", "e">>
constraintWord == <<"c", "o", "n", "s", "t", "r", "a", "i", "n", "t">>
constraintsWord == constraintWord \o <<"s">>

isStrong(kid) == kid.tag = "strong"
isPre(kid) == kid.tag = "pre"

\* child.querySelector('strong')?.textContent?.trim().toLowerCase() ?? ''
strongText(child) ==
  LET strongs == SelectSeq(child.kids, isStrong)
  IN IF strongs = <<>> THEN <<>> ELSE toLowerCase(trim(strongs[1].text))

\* the two break conditions of the description loop
breaksAt(child) ==
  \/ startsWith(strongText(child), exampleWord)
  \/ startsWith(strongText(child), constraintsWord)
  \/ child.tag = "pre"

RECURSIVE descriptionParts(_)
\* the loop over body.children: stop at the first child that breaks, push
\* the trimmed text of a child when it is not empty
descriptionParts(cs) ==
  IF cs = <<>> \/ breaksAt(Head(cs)) THEN <<>>
  ELSE LET text == trim(textContent(Head(cs)))
       IN (IF text # <<>> THEN <<text>> ELSE <<>>) \o descriptionParts(Tail(cs))

UnableToExtract == <<"Unable to extract the problem description.">>
ConstraintsNotDetected == <<"Constraints not detected.">>

\* descriptionParts.join('\n\n') || body.textContent?.trim() || 'Unable to ...'
describe(nodes) ==
  LET joined == joinBy(descriptionParts(children(nodes)), <<NL, NL>>)
  IN IF joined # <<>> THEN joined
     ELSE IF trim(bodyText(nodes)) # <<>> THEN trim(bodyText(nodes))
     ELSE UnableToExtract

RECURSIVE textsOf(_)
textsOf(kids) == IF kids = <<>> THEN <<>> ELSE <<Head(kids).text>> \o textsOf(Tail(kids))

RECURSIVE preTexts(_)
\* the textContent of every node of body.querySelectorAll('pre'), in
\* document order: an element before the elements it contains
preTexts(nodes) ==
  IF nodes = <<>> THEN <<>>
  ELSE LET node == Head(nodes)
       IN (IF node.tag = "pre" THEN <<textContent(node)>> ELSE <<>>)
            \o textsOf(SelectSeq(node.kids, isPre))
            \o preTexts(Tail(nodes))

RECURSIVE trimAll(_)
trimAll(texts) == IF texts = <<>> THEN <<>> ELSE <<trim(Head(texts))>> \o trimAll(Tail(texts))

nonEmpty(text) == text # <<>>

\* .map(node => node.textContent?.trim() ?? '') with no .filter(Boolean)
extractExamples_unfiltered(nodes) == trimAll(preTexts(nodes))

\* .map(node => node.textContent?.trim() ?? '').filter(Boolean)
extractExamples(nodes) == SelectSeq(trimAll(preTexts(nodes)), nonEmpty)

RECURSIVE strongNodes(_, _)
\* body.querySelectorAll('strong') from child node i on, each with its
\* parentElement: 0 is the body, i the i-th child node of the body
strongNodes(nodes, i) ==
  IF i > Len(nodes) THEN <<>>
  ELSE LET node == nodes[i]
           inside == SelectSeq(node.kids, isStrong)
       IN (IF node.tag = "strong" THEN <<[text |-> textContent(node), parent |-> 0]>>
           ELSE <<>>)
            \o [k \in 1..Len(inside) |-> [text |-> inside[k].text, parent |-> i]]
            \o strongNodes(nodes, i + 1)

\* parentElement.nextElementSibling of the i-th child node: the position of
\* the next element among the child nodes, 0 when there is none
nextElementSibling(nodes, i) ==
  IF \E j \in (i + 1)..Len(nodes) : isElement(nodes[j])
  THEN CHOOSE j \in (i + 1)..Len(nodes) :
         isElement(nodes[j]) /\ \A k \in (i + 1)..(j - 1) : ~isElement(nodes[k])
  ELSE 0

isItem(kid) == kid.tag # TextTag

\* the constraints text, from the first strong whose lower-cased text
\* includes 'constraint'
extractConstraints(nodes) ==
  LET all == strongNodes(nodes, 1)
      hits == { k \in 1..Len(all) : includes(toLowerCase(all[k].text), constraintWord) }
  IN IF hits = {} THEN ConstraintsNotDetected
     ELSE LET constraintNode == all[CHOOSE k \in hits : \A h \in hits : k <= h]
              listCandidate ==
                IF constraintNode.parent = 0 THEN 0
                ELSE nextElementSibling(nodes, constraintNode.parent)
          IN IF listCandidate # 0 /\ nodes[listCandidate].tag \in {"ul", "ol"}
             THEN joinBy(SelectSeq(trimAll(textsOf(SelectSeq(nodes[listCandidate].kids,
                                                              isItem))),
                                   nonEmpty),
                         <<NL>>)
             ELSE IF constraintNode.parent = 0 THEN trim(bodyText(nodes))
             ELSE trim(textContent(nodes[constraintNode.parent]))

\* parseHtmlContent(html), html given as the body it parses to
parseHtmlContent(nodes) ==
  [description |-> describe(nodes),
   examples |-> extractExamples(nodes),
   constraints |-> extractConstraints(nodes)]

NoResult == [description |-> <<>>, examples |-> <<>>, constraints |-> <<>>]

\* normalizeDifficulty(value) is called and returns
NormalizeDifficulty ==
  /\ parsePc = "difficulty"
  /\ difficulty' = normalizeDifficulty(difficultyIn)
  /\ parsePc' = "normalized"
  /\ UNCHANGED <<notParse, difficultyIn, body, parseResult>>

\* parseHtmlContent(html) is called and returns
ParseHtmlContent ==
  /\ parsePc = "html"
  /\ parseResult' = parseHtmlContent(body)
  /\ parsePc' = "parsed"
  /\ UNCHANGED <<notParse, difficultyIn, body, difficulty>>

\* ------------------------------------------------------------ specifications
InitPanelFields ==
  /\ now = 0
  /\ initPc = "health"
  /\ backendStatus = "loading"
  /\ problem = NULL
  /\ problemStatus = "loading"
  /\ problemError = NULL
  /\ probReqs = 0
  /\ messages = <<>>
  /\ isThinking = FALSE
  /\ chatError = NULL
  /\ nreq = 0
  /\ req = [r \in Reqs |-> IdleReq]

\* no scrape under way
ScrapeIdle ==
  /\ sPc = "idle"
  /\ clock = 0
  /\ start = 0
  /\ attempt = 0
  /\ consulted = <<>>
  /\ scraped = NoCandidate
  /\ sOutcome = ScrapePending
  /\ readyAt = 1
  /\ readyBy = {}
  /\ failAt = 0

\* no extractor run under way
PageIdle ==
  /\ pagePc = "idle"
  /\ pathSegment = <<>>
  /\ nextData = <<>>
  /\ domTitle = <<>>
  /\ graphTitle = <<>>
  /\ structuredResult = NoProblem
  /\ domResult = NoProblem
  /\ pageResult = NoProblem

\* no message under way
BusIdle ==
  /\ tabs = [t \in Tabs |-> [url |-> "other", status |-> "complete"]]
  /\ activeTab = 0
  /\ navsLeft = 0
  /\ calls = <<>>
  /\ inbox = <<>>
  /\ signals = <<>>
  /\ ingestStatus = "idle"
  /\ ingests = 0

\* waitForProblem not called
WaitIdle ==
  /\ wPc = "idle"
  /\ wElapsed = 0
  /\ readyState = "complete"
  /\ extractable = FALSE
  /\ observing = FALSE
  /\ listening = FALSE
  /\ timerSet = FALSE
  /\ wAttempts = 0
  /\ wSettles = 0
  /\ wOutcome = ScrapePending
  /\ dataAt = -1
  /\ eventsLeft = 0

\* no traversal under way
WalkIdle ==
  /\ stack = <<>>
  /\ pops = 0
  /\ pushes = <<>>

\* neither helper called
ParseIdle ==
  /\ parsePc = "idle"
  /\ difficultyIn = UndefinedValue
  /\ body = <<>>
  /\ difficulty = <<>>
  /\ parseResult = NoResult

\* one question, any body, any chunking, a caller that may abort
InitStream ==
  /\ scope = "stream"
  /\ submitsLeft = 1
  /\ refreshLeft = 0
  /\ InitPanelFields
  /\ ScrapeIdle
  /\ PageIdle
  /\ BusIdle
  /\ WaitIdle
  /\ ParseIdle
  /\ WalkIdle

NextStream ==
  \/ InitialiseHealth
  \/ ProblemResolves
  \/ ProblemRejects
  \/ Submit
  \/ \E r \in Reqs : FetchFails(r)
  \/ \E r \in Reqs : FetchOk(r)
  \/ \E r \in Reqs : ReadChunk(r)
  \/ \E r \in Reqs : ReadDone(r)
  \/ \E r \in Reqs : Abort(r)
  \/ \E r \in Reqs : AbortRejects(r)

SpecStream == InitStream /\ [][NextStream]_vars

\* a panel session: several questions, refreshes, the clock; the panel passes
\* no AbortSignal
InitPanel ==
  /\ scope = "panel"
  /\ submitsLeft = MaxSubmits
  /\ refreshLeft = MaxRefresh
  /\ InitPanelFields
  /\ ScrapeIdle
  /\ PageIdle
  /\ BusIdle
  /\ WaitIdle
  /\ ParseIdle
  /\ WalkIdle

NextPanel ==
  \/ InitialiseHealth
  \/ RefreshProblem
  \/ ProblemResolves
  \/ ProblemRejects
  \/ Tick
  \/ Submit
  \/ \E r \in Reqs : FetchFails(r)
  \/ \E r \in Reqs : FetchOk(r)
  \/ \E r \in Reqs : ReadChunk(r)
  \/ \E r \in Reqs : ReadDone(r)

SpecPanel == InitPanel /\ [][NextPanel]_vars

\* a panel session on one problem: the problem is loaded once, the user asks
\* several questions, the clock runs
InitSession ==
  /\ scope = "panel"
  /\ submitsLeft = MaxSubmits
  /\ refreshLeft = 0
  /\ InitPanelFields
  /\ ScrapeIdle
  /\ PageIdle
  /\ BusIdle
  /\ WaitIdle
  /\ ParseIdle
  /\ WalkIdle

NextSession ==
  \/ InitialiseHealth
  \/ ProblemResolves
  \/ ProblemRejects
  \/ Tick
  \/ Submit
  \/ \E r \in Reqs : FetchFails(r)
  \/ \E r \in Reqs : FetchOk(r)
  \/ \E r \in Reqs : ReadChunk(r)
  \/ \E r \in Reqs : ReadDone(r)

SpecSession == InitSession /\ [][NextSession]_vars

\* the last attempt that starts before the deadline when nothing takes time
LastAttempt == timeoutMs \div pollDelayMs - 1

\* one call of scrapeProblemFromTab on a page that becomes ready at some attempt
\* for some of the extractors, or never
InitScrape ==
  /\ scope = "scrape"
  /\ submitsLeft = 0
  /\ refreshLeft = 0
  /\ InitPanelFields
  /\ sPc = "loop"
  /\ clock = 0
  /\ start = 0
  /\ attempt = 0
  /\ consulted = <<>>
  /\ scraped = NoCandidate
  /\ sOutcome = ScrapePending
  /\ PageIdle
  /\ BusIdle
  /\ WaitIdle
  /\ ParseIdle
  /\ WalkIdle
  /\ readyBy \in SUBSET Extractors
  /\ readyAt \in IF readyBy = {} THEN {1} ELSE {1, 2, LastAttempt}
  /\ failAt \in {0, 2}

NextScrape ==
  \/ LoopCheck
  \/ InjectionFails
  \/ PageExtracts
  \/ GraphQLAnswers
  \/ InjectionReturns
  \/ TimerFires

SpecScrape == InitScrape /\ [][NextScrape]_vars

\* every step is a callback or a continuation the event loop will run
SpecScrapeFair == SpecScrape /\ WF_vars(NextScrape)

\* the objects window.__NEXT_DATA__ may hold below its root
PlainNode == [title |-> Undefined, content |-> Undefined, titleSlug |-> Undefined]
NodeFields ==
  {PlainNode} \cup
  [title : {<<"a">>, <<"b">>, <<"?">>}, content : {<<"c">>, <<>>},
   titleSlug : {Undefined, <<>>, <<"a">>}]

\* every tree over the root and MaxNodes objects: each object is a value of
\* the root or of an earlier object
Graphs ==
  { [id \in 1..(MaxNodes + 1) |->
       IF id = 1
         THEN [title |-> Undefined, content |-> Undefined, titleSlug |-> Undefined,
               values |-> SelectSeq([k \in 1..MaxNodes |-> k + 1],
                                    LAMBDA k : parent[k] = 1)]
         ELSE [title |-> fields[id].title, content |-> fields[id].content,
               titleSlug |-> fields[id].titleSlug,
               values |-> SelectSeq([k \in 1..MaxNodes |-> k + 1],
                                    LAMBDA k : k > id /\ parent[k] = id)]] :
      fields \in [2..(MaxNodes + 1) -> NodeFields],
      parent \in { f \in [2..(MaxNodes + 1) -> 1..MaxNodes] : \A k \in DOMAIN f : f[k] < k } }

\* every acyclic graph over the root and MaxNodes objects: each object is a
\* value of one or more of the objects before it
SharedGraphs ==
  { [id \in 1..(MaxNodes + 1) |->
       [title |-> IF id = 1 THEN Undefined ELSE fields[id].title,
        content |-> IF id = 1 THEN Undefined ELSE fields[id].content,
        titleSlug |-> IF id = 1 THEN Undefined ELSE fields[id].titleSlug,
        values |-> SelectSeq([k \in 1..MaxNodes |-> k + 1], LAMBDA k : id \in parents[k])]] :
      fields \in [2..(MaxNodes + 1) ->
                   {PlainNode,
                    [title |-> <<"a">>, content |-> <<"c">>, titleSlug |-> Undefined],
                    [title |-> <<"b">>, content |-> <<"c">>, titleSlug |-> Undefined],
                    [title |-> <<"a">>, content |-> <<>>, titleSlug |-> Undefined]}],
      parents \in { f \in [2..(MaxNodes + 1) -> SUBSET (1..MaxNodes)] :
                      \A k \in DOMAIN f : f[k] # {} /\ \A q \in f[k] : q < k } }

\* one traversal of extractFromNextData over any acyclic graph
InitTraverse ==
  /\ scope = "traverse"
  /\ submitsLeft = 0
  /\ refreshLeft = 0
  /\ InitPanelFields
  /\ ScrapeIdle
  /\ BusIdle
  /\ WaitIdle
  /\ ParseIdle
  /\ WalkIdle
  /\ pagePc = "init"
  /\ pathSegment \in {<<>>, <<"a">>}
  /\ nextData \in SharedGraphs
  /\ domTitle = <<>>
  /\ graphTitle = <<>>
  /\ structuredResult = NoProblem
  /\ domResult = NoProblem
  /\ pageResult = NoProblem

NextTraverse ==
  \/ TraversalStarts
  \/ TraversalStep
  \/ TraversalEnds

SpecTraverse == InitTraverse /\ [][NextTraverse]_vars

\* the loop runs on: no iteration waits for anything
SpecTraverseFair == SpecTraverse /\ WF_vars(NextTraverse)

\* one run of the extractors over any page
InitExtract ==
  /\ scope = "extract"
  /\ submitsLeft = 0
  /\ refreshLeft = 0
  /\ InitPanelFields
  /\ ScrapeIdle
  /\ BusIdle
  /\ WaitIdle
  /\ ParseIdle
  /\ WalkIdle
  /\ pagePc = "init"
  /\ pathSegment \in {<<>>, <<"a">>, <<"A", "?">>}
  /\ nextData \in Graphs
  /\ domTitle \in {<<>>, <<"a">>, <<"b">>}
  /\ graphTitle \in {<<>>, <<"a">>}
  /\ structuredResult = NoProblem
  /\ domResult = NoProblem
  /\ pageResult = NoProblem

NextExtract ==
  \/ RunStructured
  \/ RunDom
  \/ RunNetwork

SpecExtract == InitExtract /\ [][NextExtract]_vars

\* a panel session with its service worker: the panel opens on some tab,
\* the user navigates, switches tabs, refreshes and asks a question
InitLoad ==
  /\ scope = "load"
  /\ submitsLeft = 1
  /\ refreshLeft = MaxRefresh
  /\ InitPanelFields
  /\ ScrapeIdle
  /\ PageIdle
  /\ tabs = [t \in Tabs |-> [url |-> IF t = 1 THEN "P1" ELSE "other", status |-> "complete"]]
  /\ activeTab = 1
  /\ navsLeft = MaxNavs
  /\ calls = <<>>
  /\ inbox = <<>>
  /\ signals = <<>>
  /\ ingestStatus = "idle"
  /\ ingests = 0
  /\ WaitIdle
  /\ ParseIdle
  /\ WalkIdle

NextLoad ==
  \/ Initialise
  \/ RefreshClicked
  \/ SignalArrives
  \/ \E c \in DOMAIN calls : SendFails(c)
  \/ \E c \in DOMAIN calls : BackgroundReceives(c)
  \/ \E c \in DOMAIN calls : TabsQueried(c)
  \/ \E c \in DOMAIN calls : ScrapeSettles(c)
  \/ \E c \in DOMAIN calls : ResponseArrives(c)
  \/ IngestResolves
  \/ IngestRejects
  \/ \E t \in Tabs : Navigate(t)
  \/ \E t \in Tabs : LoadCompletes(t)
  \/ SwitchTab

SpecLoad == InitLoad /\ [][NextLoad]_vars

\* a panel on one problem page: the problem is loaded and ingested, the user
\* refreshes and asks questions
InitIngest ==
  /\ scope = "ingest"
  /\ submitsLeft = MaxSubmits
  /\ refreshLeft = MaxRefresh
  /\ InitPanelFields
  /\ ScrapeIdle
  /\ PageIdle
  /\ tabs = [t \in Tabs |-> [url |-> IF t = 1 THEN "P1" ELSE "other", status |-> "complete"]]
  /\ activeTab = 1
  /\ navsLeft = 0
  /\ calls = <<>>
  /\ inbox = <<>>
  /\ signals = <<>>
  /\ ingestStatus = "idle"
  /\ ingests = 0
  /\ WaitIdle
  /\ ParseIdle
  /\ WalkIdle

NextIngest ==
  \/ Initialise
  \/ RefreshClicked
  \/ \E c \in DOMAIN calls : SendFails(c)
  \/ \E c \in DOMAIN calls : BackgroundReceives(c)
  \/ \E c \in DOMAIN calls : TabsQueried(c)
  \/ \E c \in DOMAIN calls : ScrapeSettles(c)
  \/ \E c \in DOMAIN calls : ResponseArrives(c)
  \/ IngestResolves
  \/ IngestRejects
  \/ Submit
  \/ \E r \in Reqs : FetchFails(r)

SpecIngest == InitIngest /\ [][NextIngest]_vars

\* the listeners of the service worker and of the page scripts, handed any
\* messages
InitListeners ==
  /\ scope = "listeners"
  /\ submitsLeft = 0
  /\ refreshLeft = 0
  /\ InitPanelFields
  /\ ScrapeIdle
  /\ PageIdle
  /\ BusIdle
  /\ WaitIdle
  /\ ParseIdle
  /\ WalkIdle

NextListeners ==
  \/ Deliver
  \/ \E i \in DOMAIN inbox : AsyncAnswers(i)

SpecListeners == InitListeners /\ [][NextListeners]_vars

\* one call of waitForProblem on a page in any loading state
InitWait ==
  /\ scope = "wait"
  /\ submitsLeft = 0
  /\ refreshLeft = 0
  /\ InitPanelFields
  /\ ScrapeIdle
  /\ PageIdle
  /\ BusIdle
  /\ wPc = "idle"
  /\ wElapsed = 0
  /\ readyState \in {"loading", "interactive", "complete"}
  /\ extractable \in BOOLEAN
  /\ observing = FALSE
  /\ listening = FALSE
  /\ timerSet = FALSE
  /\ wAttempts = 0
  /\ wSettles = 0
  /\ wOutcome = ScrapePending
  /\ dataAt = IF extractable THEN 0 ELSE -1
  /\ eventsLeft = MaxEvents
  /\ ParseIdle
  /\ WalkIdle

NextWait ==
  \/ WaitStarts
  \/ DataArrives
  \/ Mutation
  \/ ReadyStateChanges
  \/ TimePasses
  \/ TimeoutFires

SpecWait == InitWait /\ [][NextWait]_vars

\* every step is a callback the event loop will run, and time passes
SpecWaitFair == SpecWait /\ WF_vars(NextWait)

\* ------------------------------------------------ the helpers, on any input
RECURSIVE Blank(_)
\* n whitespace characters
Blank(n) == IF n = 0 THEN {<<>>} ELSE { <<c>> \o b : c \in {SP, NL}, b \in Blank(n - 1) }

Padded(word) ==
  { l \o word \o r : l \in UNION { Blank(n) : n \in 0..MaxPad },
                     r \in UNION { Blank(n) : n \in 0..MaxPad } }

\* labels a page may carry: the three, other case, other text, none
DifficultyTexts ==
  UNION { Padded(w) : w \in {Easy, Medium, Hard, <<>>, <<"e", "a", "s", "y">>,
                             <<"E", "A", "S", "Y">>, <<"E", "a", "s", "y", "x">>,
                             <<"E", "a", SP, "s", "y">>, <<"x">>} }

DifficultyInputs == {UndefinedValue, NullValue} \cup { Str(t) : t \in DifficultyTexts }

\* child nodes a problem statement is made of
TopNodes ==
  { Element("p", <<Leaf(TextTag, <<"a", SP>>)>>),
    Element("p", <<Leaf(TextTag, <<SP>>)>>),
    Element("p", <<Leaf("strong", <<SP, "E", "x", "a", "m", "p", "l", "e", "s">>),
                   Leaf(TextTag, <<"b">>)>>),
    Element("p", <<Leaf("strong", <<"C", "o", "n", "s", "t", "r", "a", "i", "n", "t", "s">>)>>),
    Element("p", <<Leaf("strong", <<"c", "o", "n", "s", "t", "r", "a", "i", "n", "t">>),
                   Leaf(TextTag, <<"c">>)>>),
    Element("strong", <<Leaf(TextTag, <<"E", "x", "a", "m", "p", "l", "e">>)>>),
    Element("pre", <<Leaf(TextTag, <<NL, "d">>)>>),
    Element("pre", <<Leaf(TextTag, <<SP>>)>>),
    Element("div", <<Leaf(TextTag, <<"f">>), Leaf("pre", <<"g">>)>>),
    Element("ul", <<Leaf("li", <<"h">>), Leaf(TextTag, <<NL>>), Leaf("li", <<"i", SP>>)>>),
    TextNode(<<"t">>) }

RECURSIVE Fragments(_)
\* every body of at most n child nodes
Fragments(n) ==
  IF n = 0 THEN {<<>>}
  ELSE Fragments(n - 1) \cup { <<c>> \o f : c \in TopNodes, f \in { g \in Fragments(n - 1) : Len(g) = n - 1 } }

InitParse ==
  /\ scope = "parse"
  /\ submitsLeft = 0
  /\ refreshLeft = 0
  /\ InitPanelFields
  /\ ScrapeIdle
  /\ PageIdle
  /\ BusIdle
  /\ WaitIdle
  /\ WalkIdle
  /\ difficulty = <<>>
  /\ parseResult = NoResult
  /\ \/ /\ parsePc = "difficulty"
        /\ difficultyIn \in DifficultyInputs
        /\ body = <<>>
     \/ /\ parsePc = "html"
        /\ difficultyIn = UndefinedValue
        /\ body \in Fragments(MaxChildren)

NextParse ==
  \/ NormalizeDifficulty
  \/ ParseHtmlContent

SpecParse == InitParse /\ [][NextParse]_vars

\* ------------------------------------------------------ what a body contains
\* the whole body decoded at once and cut into its lines
linesOf(text) ==
  LET dec == decodeFrom(text) IN split(dec.text \o decodeFlush(dec.pending))

isBlank(line) == trim(line) = <<>>

\* the non-blank lines of a body, in order, each parsed
eventsOf(text) ==
  LET ls == SelectSeq(linesOf(text), LAMBDA l : ~isBlank(l))
  IN [i \in 1..Len(ls) |-> JSONparse(ls[i])]

\* the events up to and including the first one that satisfies stop
upTo(evs, stop(_)) ==
  IF \E i \in 1..Len(evs) : stop(evs[i])
    THEN SubSeq(evs, 1, CHOOSE i \in 1..Len(evs) :
                          stop(evs[i]) /\ \A j \in 1..(i - 1) : ~stop(evs[j]))
    ELSE evs

isError(e) == e.type = "error"
isTerminal(e) == e.type \in {"end", "cached"}
wellFormed(text) == \A i \in 1..Len(eventsOf(text)) : eventsOf(text)[i] # SyntaxError

\* the same body delivered as one chunk to a fresh call
oneChunk(text) ==
  LET st0 == [handled |-> <<>>, finalPayload |-> NULL, thrown |-> NULL,
              messages |-> <<>>, isThinking |-> TRUE, chatError |-> NULL]
      one == chunkStep(IdleReq, st0, text)
      fin == doneStep(one.rec, one.st)
  IN IF text = <<>> THEN [handled |-> <<>>, outcome |-> doneStep(IdleReq, st0).outcome]
     ELSE IF one.st.thrown # NULL
       THEN [handled |-> one.st.handled, outcome |-> Rejected(one.st.thrown)]
       ELSE [handled |-> fin.st.handled, outcome |-> fin.outcome]

\* calls that read their body to a settlement without being aborted
Settled(r) == req[r].pc = "settled" /\ req[r].nreads > 0 /\ ~req[r].aborted

\* ------------------------------------------------------------------------ C1
\* C1 as stated: however the body is cut into chunks, the handler receives
\* every non-blank line of a well-formed body exactly once and in order, and
\* the call settles as it does when the body arrives as one chunk.
C1_Stated ==
  \A r \in Reqs : Settled(r) =>
    /\ wellFormed(req[r].text) => req[r].handled = eventsOf(req[r].text)
    /\ req[r].outcome = oneChunk(req[r].text).outcome

\* C1: however the body is cut into chunks, the handler receives the non-blank
\* lines of a well-formed body exactly once and in order up to and including
\* the first error event, and the call handles the same events and settles the
\* same way as when the body arrives as one chunk.
C1_Chunking ==
  \A r \in Reqs : Settled(r) =>
    /\ wellFormed(req[r].text) => req[r].handled = upTo(eventsOf(req[r].text), isError)
    /\ req[r].handled = oneChunk(req[r].text).handled
    /\ req[r].outcome = oneChunk(req[r].text).outcome

\* a two-line body with a multi-byte token, delivered one byte per read
C1_Witness ==
  \E r \in Reqs :
    /\ Settled(r)
    /\ req[r].text = <<"t", HI, LO, NL, "e", "A">>
    /\ req[r].nreads = Len(req[r].text) + 1
    /\ req[r].handled = <<[type |-> "token", val |-> WIDE], [type |-> "end", val |-> "A"]>>
    /\ req[r].outcome = Resolved("A")

\* the message the panel created for call r, if the transcript still holds it
OwnMessages(r) ==
  { i \in 1..Len(messages) : messages[i].timestamp = req[r].assistantId }

\* ------------------------------------------------------------------------ C2
\* C2 as stated: once a call has resolved, its assistant message shows the
\* answer of the terminal payload and nothing else, wherever the tokens stood
\* relative to the terminal event, and the resolved value is that same answer.
C2_Stated ==
  \A r \in Reqs : (Settled(r) /\ req[r].outcome.kind = "resolved") =>
    /\ \E i \in 1..Len(req[r].handled) :
         /\ isTerminal(req[r].handled[i])
         /\ \A j \in (i + 1)..Len(req[r].handled) : ~isTerminal(req[r].handled[j])
         /\ req[r].outcome.val = req[r].handled[i].val
    /\ \A i \in OwnMessages(r) : messages[i].content = <<req[r].outcome.val>>

\* ------------------------------------------------------------------------ C3
\* C3 as stated: a call that read its body to the end without processing an
\* end or cached event rejects with the missing-final-payload text.
C3_Stated ==
  \A r \in Reqs : (Settled(r) /\ req[r].sawDone) =>
    ((\A i \in 1..Len(req[r].handled) : ~isTerminal(req[r].handled[i]))
       => req[r].outcome = Rejected(NoFinalPayload))

\* C3: when every non-blank line of the body parses and none is an end, cached
\* or error event, the call reads the body to the end and rejects with the
\* missing-final-payload text; and no call resolves without having processed
\* an end or cached event.
C3_NoFinalPayload ==
  \A r \in Reqs : Settled(r) =>
    /\ (/\ wellFormed(req[r].text)
        /\ \A i \in 1..Len(eventsOf(req[r].text)) :
             ~isTerminal(eventsOf(req[r].text)[i]) /\ ~isError(eventsOf(req[r].text)[i]))
         => (req[r].sawDone /\ req[r].outcome = Rejected(NoFinalPayload))
    /\ req[r].outcome.kind = "resolved"
         => \E i \in 1..Len(req[r].handled) : isTerminal(req[r].handled[i])

\* a body of a token and a sources event only, read to its end
C3_Witness ==
  \E r \in Reqs :
    /\ Settled(r)
    /\ req[r].sawDone
    /\ req[r].handled = <<[type |-> "token", val |-> "a"], [type |-> "sources", val |-> NULL]>>
    /\ req[r].outcome = Rejected(NoFinalPayload)

\* ------------------------------------------------------------------------ C4
\* the state part of C4: a call that has handed an error event to the handler
\* is settled as rejected with that event's text in the same step, and the
\* error event is the last event it has handed over (an end or cached event
\* before it does not make it resolve).
C4_ErrorState ==
  \A r \in Reqs :
    (\E i \in 1..Len(req[r].handled) : isError(req[r].handled[i])) =>
      /\ req[r].pc = "settled"
      /\ isError(Last(req[r].handled))
      /\ \A i \in 1..(Len(req[r].handled) - 1) : ~isError(req[r].handled[i])
      /\ req[r].outcome = Rejected(Last(req[r].handled).val)

\* C4: an error event rejects the call at once with the event's text, whatever
\* was processed before, and nothing is read or handed over afterwards.
C4_ErrorRejectsAtOnce ==
  /\ []C4_ErrorState
  /\ [][\A r \in Reqs : req[r].pc = "settled" => req'[r] = req[r]]_chatVars

\* an end event, then an error event: rejected before the end of the body is read
C4_Witness ==
  \E r \in Reqs :
    /\ Settled(r)
    /\ req[r].handled = <<[type |-> "end", val |-> "A"], [type |-> "error", val |-> "m"]>>
    /\ req[r].outcome = Rejected("m")
    /\ req[r].finalPayload = "A"
    /\ ~req[r].sawDone

\* ------------------------------------------------------------------------ C5
\* some non-blank line of the body does not parse as JSON
hasUnparsable(text) == \E i \in 1..Len(eventsOf(text)) : eventsOf(text)[i] = SyntaxError

\* some non-blank line of the body is no event the client knows
hasNonEvent(text) ==
  \E i \in 1..Len(eventsOf(text)) : eventsOf(text)[i].type \in {"SyntaxError", "unknown"}

\* C5 as stated: a body with a non-blank line that is not a valid JSON event
\* makes the call reject, and its assistant message shows the failure text.
C5_Stated ==
  \A r \in Reqs : (Settled(r) /\ hasNonEvent(req[r].text)) =>
    /\ req[r].outcome.kind = "rejected"
    /\ \A i \in OwnMessages(r) : messages[i].content = FailedText

\* C5: a body with a non-blank line that does not parse as JSON makes the call
\* reject, and its assistant message shows the failure text, not the tokens.
C5_Unparsable ==
  \A r \in Reqs : (Settled(r) /\ hasUnparsable(req[r].text)) =>
    /\ req[r].outcome.kind = "rejected"
    /\ OwnMessages(r) # {}
    /\ \A i \in OwnMessages(r) : messages[i].content = FailedText

\* a token was shown, then a line failed to parse
C5_Witness ==
  \E r \in Reqs :
    /\ Settled(r)
    /\ req[r].text = <<"t", "a", NL, "t">>
    /\ req[r].handled = <<[type |-> "token", val |-> "a"]>>
    /\ req[r].outcome = Rejected("SyntaxError")
    /\ \E i \in OwnMessages(r) : messages[i].content = FailedText

\* ------------------------------------------------------------------------ C6
\* the step in which call r fails
Fails(r) ==
  /\ req[r].pc # "settled"
  /\ req'[r].pc = "settled"
  /\ req'[r].outcome.kind = "rejected"

\* C6 as stated: in the step in which a call fails, the transcript keeps its
\* length, the message created for that call gets the failure text, every
\* other message is left exactly as it was, and the thinking flag is cleared.
C6_Stated ==
  [][\A r \in Reqs : Fails(r) =>
       /\ Len(messages') = Len(messages)
       /\ \A i \in 1..Len(messages) :
            messages'[i] = IF messages[i].owner = r
                             THEN [messages[i] EXCEPT !.content = FailedText]
                             ELSE messages[i]
       /\ isThinking' = FALSE]_chatVars

\* ------------------------------------------------------------------------ C7
\* the state part of C7: once the caller's signal has fired on a call in flight, that call reads
\* nothing more and hands nothing more to the handler; it settles only as
\* rejected with the abort, with the reader's lock released, whatever tokens
\* or end event it had processed before.
C7_AbortState ==
  \A r \in Reqs : req[r].aborted =>
    /\ req[r].outcome.kind # "resolved"
    /\ req[r].pc = "settled" => (req[r].outcome = Rejected(AbortError) /\ ~req[r].lockHeld)

\* C7: after the signal has fired the call makes no further read, releases the
\* reader's lock and rejects; it never resolves.
C7_AbortStops ==
  /\ []C7_AbortState
  /\ [][\A r \in Reqs : req[r].aborted =>
          /\ req'[r].nreads = req[r].nreads
          /\ req'[r].handled = req[r].handled
          /\ req'[r].wire = req[r].wire]_chatVars

\* aborted after an end event was processed and with bytes still unread
C7_Witness ==
  \E r \in Reqs :
    /\ req[r].aborted
    /\ req[r].pc = "settled"
    /\ req[r].nreads > 0
    /\ req[r].wire # <<>>
    /\ req[r].finalPayload = "A"
    /\ req[r].outcome = Rejected(AbortError)
    /\ ~req[r].lockHeld

\* ------------------------------------------------------------------------ C8
\* every extractor returns null at every attempt, and every injection succeeds
AlwaysNull == readyBy = {} /\ failAt = 0

\* C8: when the extractors return null at every attempt, scrapeProblemFromTab
\* never resolves, rejects only with the could-not-detect text and only once
\* timeoutMs have elapsed since its start, and does eventually reject.
C8_TimesOut ==
  AlwaysNull =>
    /\ [](sPc = "rejected" =>
            (sOutcome = ScrapeRejected(CouldNotDetect) /\ clock - start >= timeoutMs))
    /\ [](sPc # "resolved")
    /\ <>(sPc = "rejected")

\* rejected exactly at the deadline after the last attempt that fits
C8_Witness ==
  /\ AlwaysNull
  /\ sPc = "rejected"
  /\ sOutcome = ScrapeRejected(CouldNotDetect)
  /\ attempt = LastAttempt + 1
  /\ clock - start = timeoutMs

\* ------------------------------------------------------------------------ C9
\* the candidate of the first extractor, in the order of the page function,
\* that finds something at attempt n
Order == <<"structured", "dom", "network">>

firstFound(n) ==
  IF \E i \in 1..3 : extract(Order[i], n) # NoCandidate
    THEN extract(Order[CHOOSE i \in 1..3 :
                         extract(Order[i], n) # NoCandidate
                         /\ \A j \in 1..(i - 1) : extract(Order[j], n) = NoCandidate], n)
    ELSE NoCandidate

\* C9 as stated: when the extractors first find something at attempt N, with
\* N poll intervals shorter than the timeout, a call that resolves does so with
\* that candidate, at attempt N, and within the timeout.
C9_Stated ==
  (/\ readyBy # {}
   /\ readyAt * pollDelayMs < timeoutMs
   /\ sPc = "resolved")
    => /\ sOutcome = ScrapeResolved(firstFound(readyAt))
       /\ attempt = readyAt
       /\ clock - start <= timeoutMs

\* ----------------------------------------------------------------------- C10
\* C10: in every attempt the extractors are consulted in the order structured
\* data, DOM, network, an extractor only after every earlier one returned null,
\* and a finished attempt returns what the first finder found; so does the
\* content script's scrapeProblem over structured data and DOM.
C10_Order ==
  /\ Len(consulted) <= 3
  /\ \A i \in 1..Len(consulted) :
       /\ consulted[i].extractor = Order[i]
       /\ consulted[i].result = extract(Order[i], attempt)
       /\ i < Len(consulted) => consulted[i].result = NoCandidate
  /\ sPc \in {"callback", "delay", "resolved"} =>
       /\ scraped = firstFound(attempt)
       /\ scraped = NoCandidate => Len(consulted) = 3
       /\ scraped # NoCandidate => Last(consulted).result = scraped
  /\ attempt >= 1 =>
       scrapeProblem(attempt) = IF extract(Order[1], attempt) # NoCandidate
                                  THEN extract(Order[1], attempt)
                                  ELSE extract(Order[2], attempt)

\* a second attempt in which only the network extractor finds the problem
C10_Witness ==
  /\ sPc = "resolved"
  /\ attempt = 2
  /\ Len(consulted) = 3
  /\ consulted[1].result = NoCandidate
  /\ consulted[2].result = NoCandidate
  /\ scraped = <<"network", 2>>

\* ----------------------------------------------------------------------- C11
\* C11 as stated: with a non-empty current slug, every Problem the page
\* function returns, from whichever source, carries the current slug.
C11_Stated ==
  (pagePc = "done" /\ pageResult.ok /\ currentSlug # <<>>)
    => pageResult.slug = currentSlug

\* ----------------------------------------------------------------------- C14
\* the extractor has run over the page
Extracted == pagePc \in {"structured", "dom", "done"}

\* the candidates of the graph, and those whose derived slug is the current one
Candidates == { id \in 2..(MaxNodes + 1) : isCandidate(nextData[id]) }
Matching == { id \in Candidates : candidateSlugOf(nextData[id]) = currentSlug }

\* C14 as stated: when exactly one candidate of the graph has the current
\* (non-empty) slug as its derived slug, and it has a title and a content,
\* extractFromNextData returns the Problem built from that candidate, wherever
\* it stands and whatever other candidates are visited before it.
C14_Stated ==
  (/\ Extracted
   /\ currentSlug # <<>>
   /\ Cardinality(Matching) = 1
   /\ \A id \in Matching : nextData[id].title # <<>> /\ nextData[id].content # <<>>)
    => (structuredResult.ok /\ structuredResult.node \in Matching)

\* ----------------------------------------------------------------------- C15
\* C15 as stated: when the current slug is non-empty and the only candidate of
\* the graph has a different derived slug, an empty one included,
\* extractFromNextData returns null.
C15_Stated ==
  (/\ Extracted
   /\ currentSlug # <<>>
   /\ Cardinality(Candidates) = 1
   /\ Matching = {})
    => structuredResult = NoProblem

\* ----------------------------------------------------------------------- C12
\* C12: every listener that returns the response-pending signal (true) for a
\* message calls sendResponse exactly once for it: once a listener has nothing
\* left to do for a message, it has answered once if it returned true, and it
\* has never answered twice
C12_Stated ==
  /\ \A i \in DOMAIN inbox :
       inbox[i].pc = "done" =>
         /\ inbox[i].answers <= 1
         /\ inbox[i].pending => inbox[i].answers = 1
  /\ \A c \in DOMAIN calls :
       calls[c].pc \in {"answered", "settled"} /\ calls[c].pending =>
         calls[c].answers = 1

\* ----------------------------------------------------------------------- C13
\* the error text each failure on the GET_ACTIVE_PROBLEM path carries
textOf(cause) ==
  CASE cause = "send" -> LastError
    [] cause = "query" -> LastError
    [] cause = "noTab" -> NoActiveTab
    [] cause = "injection" -> InjectionError
    [] cause = "timeout" -> CouldNotDetect

InFlight == initPc = "health" \/ \E c \in DOMAIN calls : calls[c].pc # "settled"

\* C13: every failure on the GET_ACTIVE_PROBLEM path reaches the panel as an
\* error value. A failure met by the service worker is answered once with
\* {success: false, error}; in the step in which a failed request settles the
\* panel goes to problemStatus 'error' with the failure's message; and the
\* panel shows 'loading' only while a request is still under way
C13_FailuresAreErrors ==
  /\ [](\A c \in DOMAIN calls :
          calls[c].cause \in {"query", "noTab", "injection", "timeout"} =>
            /\ calls[c].pending
            /\ calls[c].answers = 1
            /\ calls[c].response = Failure(textOf(calls[c].cause)))
  /\ [](problemStatus = "loading" => InFlight)
  /\ [][\A c \in DOMAIN calls :
          (calls[c].pc # "settled" /\ calls'[c].pc = "settled" /\ calls'[c].cause # NULL) =>
            /\ problemStatus' = "error"
            /\ problemError' = textOf(calls'[c].cause)]_vars

\* a request that found no active tab has settled and the panel shows its error
C13_Witness ==
  \E c \in DOMAIN calls :
    /\ calls[c].pc = "settled"
    /\ calls[c].cause = "noTab"
    /\ problemStatus = "error"
    /\ problemError = NoActiveTab

C17_Stated ==
  wPc = "rejected" => ~(dataAt >= 0 /\ dataAt < QUERY_TIMEOUT_MS)

\* ----------------------------------------------------------------------- C18
\* how the request c settled in the panel
outcomeOf(c) ==
  requestOutcome(IF calls[c].cause = "send" THEN LastError ELSE NULL, calls[c].response)

AllSettled == calls # <<>> /\ \A c \in DOMAIN calls : calls[c].pc = "settled"

\* C18 as stated: once all GET_ACTIVE_PROBLEM requests of the panel have
\* settled, in whatever order their responses arrived, the panel's problem
\* and status are those of the request issued last
C18_Stated ==
  AllSettled =>
    LET o == outcomeOf(Len(calls)) IN
    IF o.kind = "resolved"
      THEN problem = o.val /\ problemStatus = "ready"
      ELSE problemStatus = "error" /\ problemError = o.val

\* ----------------------------------------------------------------------- C19
\* ingestProblem has rejected in this step
IngestFailed == ingests' = ingests - 1 /\ ingestStatus' = "error"

\* C19: a failed ingestProblem leaves every condition of submitting as it was
\* (problem, problem status, backend status, not thinking) and shows only as a
\* warning: ingest status 'error' and an error text
C19_IngestFailureWarns ==
  [][IngestFailed =>
       /\ canSubmit' = canSubmit
       /\ <<problem, problemStatus, backendStatus, isThinking>>' =
            <<problem, problemStatus, backendStatus, isThinking>>
       /\ chatError' \in {FailedToFetch, BackendFailed}
       /\ messages' = messages]_vars

\* a question was submitted after the ingest had failed
C19_Witness ==
  /\ ingestStatus = "error"
  /\ isThinking
  /\ chatError = NULL
  /\ nreq > 0

\* ----------------------------------------------------------------------- C20
\* C20 as stated: the notification carries nothing but its type
C20_Stated == \A i \in DOMAIN signals : DOMAIN signals[i] = {"type"}

Sent == Len(signals') > Len(signals)
Received == Len(signals') < Len(signals)

\* C20: the notification carries its type and the id of a tab, no problem
\* data. The service worker sends it when that tab has finished loading a
\* problem page; a panel that receives it starts a fresh GET_ACTIVE_PROBLEM
\* request and leaves its problem as it is; and the panel's problem changes
\* only when a request settles, to the problem of that request's response
C20_Trigger ==
  /\ [](\A i \in DOMAIN signals :
          /\ DOMAIN signals[i] = {"type", "tabId"}
          /\ signals[i].type = "ACTIVE_PROBLEM_CHANGED"
          /\ signals[i].tabId \in Tabs)
  /\ [][Sent =>
          LET t == Last(signals').tabId IN
          /\ tabs[t].status = "loading"
          /\ tabs'[t].status = "complete"
          /\ isProblemUrl(tabs'[t].url)]_vars
  /\ [][Received =>
          /\ Len(calls') = Len(calls) + 1
          /\ Last(calls') = NewCall
          /\ problemStatus' = "loading"
          /\ problem' = problem]_vars
  /\ [][problem' # problem =>
          \E c \in DOMAIN calls :
            /\ calls[c].pc = "answered"
            /\ calls'[c].pc = "settled"
            /\ calls[c].response.success
            /\ problem' = calls[c].response.problem]_vars

\* the tab was navigated to P2, the panel was notified, and the request it
\* then sent has given the panel that problem
C20_Witness ==
  /\ signals = <<>>
  /\ refreshLeft = MaxRefresh
  /\ Len(calls) = 2
  /\ calls[2].pc = "settled"
  /\ calls[2].response = Success("P2")
  /\ problem = "P2"
  /\ problemStatus = "ready"

\* ----------------------------------------------------------------------- C21
\* the step is the arrival of a problem: setProblem and the greeting effect
ProblemArrives == probReqs' < probReqs /\ problemStatus' = "ready"

\* the calls of streamChatRequest that act in this step
Acting == { r \in Reqs : req'[r] # req[r] /\ req[r].pc # "idle" }

\* the transcript after the step keeps every message in its place, with its
\* role and timestamp; a submission adds a user message and an assistant
\* message at the end; contents change only through the calls in owners
appendOnly(owners) ==
  /\ Len(messages') \in {Len(messages), Len(messages) + 2}
  /\ \A i \in 1..Len(messages) :
       /\ messages'[i].role = messages[i].role
       /\ messages'[i].timestamp = messages[i].timestamp
       /\ messages'[i].content # messages[i].content => messages[i].owner \in owners
  /\ Len(messages') = Len(messages) + 2 =>
       /\ messages'[Len(messages) + 1].role = "user"
       /\ messages'[Len(messages) + 2].role = "assistant"

\* C21 as stated: in every step that is not the arrival of a problem the
\* transcript is append-only, and the events of a stream change the content
\* of no message but the assistant message created for that stream
C21_Stated == [][~ProblemArrives => appendOnly(Acting)]_vars

\* the timestamp of an assistant message created by a submission, which is
\* the id of its stream, is carried by no other message of the transcript
DistinctIds ==
  \A i, j \in 1..Len(messages) :
    (i # j /\ messages[i].owner # 0) => messages[i].timestamp # messages[j].timestamp

\* C21: on one problem, as long as no other message carries the timestamp of
\* a submission's assistant message, the transcript is append-only and the
\* events of a stream change the content of no message but the assistant
\* message created for that stream
C21_AppendOnly == [][(~ProblemArrives /\ DistinctIds) => appendOnly(Acting)]_vars

\* the second question's stream has put a token into its own message, below
\* the settled exchange of the first question
C21_Witness ==
  /\ Len(messages) = 5
  /\ DistinctIds
  /\ messages[3].content = FailedText
  /\ messages[5].owner = 2
  /\ messages[5].content = <<"a">>

\* ------------------------------------------------------------------- C22
\* text is word with nothing but whitespace before and after it
isPadded(text, word) ==
  \E i \in 1..(Len(text) + 1) :
    /\ i + Len(word) - 1 <= Len(text)
    /\ SubSeq(text, i, i + Len(word) - 1) = word
    /\ \A k \in 1..Len(text) : (k < i \/ k > i + Len(word) - 1) => text[k] \in {SP, NL}

\* C22: normalizeDifficulty returns 'Easy', 'Medium' or 'Hard' for every
\* input: one of the three labels with whitespace around it gives that label,
\* every other input (other text, other case, '', undefined, null) 'Medium'.
C22_Normalized ==
  parsePc = "normalized" =>
    /\ difficulty \in {Easy, Medium, Hard}
    /\ \A w \in {Easy, Medium, Hard} :
         (difficultyIn.kind = "string" /\ isPadded(difficultyIn.text, w)) => difficulty = w
    /\ ~(\E w \in {Easy, Hard} :
           difficultyIn.kind = "string" /\ isPadded(difficultyIn.text, w)) => difficulty = Medium

\* ' Hard' followed by a line break came back as 'Hard'
C22_Witness ==
  /\ parsePc = "normalized"
  /\ difficultyIn = Str(<<SP>> \o Hard \o <<NL>>)
  /\ difficulty = Hard

\* ------------------------------------------------------------------- C23
\* where the preformatted blocks of the body are: <<i, 0>> is the i-th child
\* node, <<i, k>> the k-th node inside it
PreBlocks ==
  { <<i, 0>> : i \in { j \in 1..Len(body) : body[j].tag = "pre" } }
    \cup UNION { { <<i, k>> : k \in { l \in 1..Len(body[i].kids) : body[i].kids[l].tag = "pre" } } :
                 i \in 1..Len(body) }
blockText(b) == IF b[2] = 0 THEN textContent(body[b[1]]) ELSE body[b[1]].kids[b[2]].text
whitespaceOnly(text) == \A k \in 1..Len(text) : text[k] \in {SP, NL}
\* b is c or comes before c in the document
notAfter(b, c) == b[1] < c[1] \/ (b[1] = c[1] /\ b[2] <= c[2])
\* examples holds exactly the blocks of the set, in document order, trimmed
examplesAre(blocks) ==
  /\ Len(parseResult.examples) = Cardinality(blocks)
  /\ \A c \in blocks :
       LET rank == Cardinality({ b \in blocks : notAfter(b, c) })
       IN /\ isPadded(blockText(c), parseResult.examples[rank])
          /\ ~whitespaceOnly(<<Head(parseResult.examples[rank])>>)
          /\ ~whitespaceOnly(<<Last(parseResult.examples[rank])>>)

\* C23 as stated: a fragment with at least one preformatted block gives at
\* least one example, and the examples are the texts of the preformatted
\* blocks in document order.
C23_Stated ==
  (parsePc = "parsed" /\ PreBlocks # {}) =>
    /\ Len(parseResult.examples) >= 1
    /\ Len(parseResult.examples) = Cardinality(PreBlocks)
    /\ \A c \in PreBlocks :
         isPadded(blockText(c),
                  parseResult.examples[Cardinality({ b \in PreBlocks : notAfter(b, c) })])

\* C23: the examples are the trimmed texts of the preformatted blocks whose
\* text is not blank, in document order; there is at least one example when
\* at least one block is not blank.
C23_Examples ==
  parsePc = "parsed" =>
    LET filled == { b \in PreBlocks : ~whitespaceOnly(blockText(b)) }
    IN /\ examplesAre(filled)
       /\ filled # {} => Len(parseResult.examples) >= 1

\* a block inside a div, a blank block and a block after them: two examples
C23_Witness ==
  /\ parsePc = "parsed"
  /\ Len(body) = 3
  /\ body[1].tag = "div"
  /\ Cardinality(PreBlocks) = 3
  /\ parseResult.examples = << <<"g">>, <<"d">> >>

\* ------------------------------------------------------------------- C24
\* the description boundary: the first child element that holds a label
\* starting with 'example' or 'constraints', or is a preformatted block
hasBoundary == \E i \in 1..Len(children(body)) : breaksAt(children(body)[i])
\* the texts of the child elements before the boundary, blank ones left out
textBeforeBoundary == joinBy(descriptionParts(children(body)), <<NL, NL>>)

\* C24 as stated: for a non-empty fragment the description consists only of
\* text of the child elements before the description boundary, and holds no
\* text of the boundary child or of a later child, also when the boundary
\* is the first child.
C24_Stated ==
  (parsePc = "parsed" /\ body # <<>> /\ hasBoundary) =>
    \/ parseResult.description = textBeforeBoundary
    \/ textBeforeBoundary = <<>> /\ parseResult.description = UnableToExtract

\* ------------------------------------------------------------------- C25
\* streamChatRequest was called for r and has not settled
Streaming(r) == req[r].pc \in {"fetching", "reading"}

\* C25 as stated: at most one streaming chat request is in flight; from the
\* start of a submission until its streamChatRequest has settled the
\* thinking flag is true, and no second submission starts a stream.
C25_Stated ==
  /\ Cardinality({ r \in Reqs : Streaming(r) }) <= 1
  /\ (\E r \in Reqs : Streaming(r)) => isThinking

\* ------------------------------------------------------------------- C26
\* the call r was made for a transcript that has been replaced since
Orphaned(r) == req[r].pc # "idle" /\ \A i \in 1..Len(messages) : messages[i].owner # r

\* C26 as stated: when the problem is replaced while a stream for the
\* previous problem is still being read, the transcript becomes exactly the
\* greeting for the new problem, and no later event or failure of the old
\* stream changes any message of the new transcript.
C26_Stated ==
  [][/\ (ProblemArrives /\ \E r \in Reqs : req[r].pc \in {"fetching", "reading"}) =>
          /\ Len(messages') = 1
          /\ messages'[1].role = "assistant"
          /\ messages'[1].content = <<"Ready to explore", problem'>>
     /\ \A r \in Acting : Orphaned(r) => messages' = messages]_vars

\* ------------------------------------------------------------------- C27
WaitSettled == wPc \in {"resolved", "rejected"}

C29_AtMost40 ==
  /\ [](attempt <= 40)
  /\ [][attempt' # attempt =>
         /\ attempt' = attempt + 1
         /\ sPc = "loop" /\ sPc' = "inject"
         /\ scraped = NoCandidate
         /\ clock - start >= attempt * pollDelayMs
         /\ clock - start < timeoutMs]_vars
  /\ [](sPc \in {"inject", "graphql", "callback"} => attempt >= 1)

\* the fortieth attempt has returned null, with no time lost before it
C29_Witness ==
  /\ attempt = 40
  /\ sPc = "delay"
  /\ scraped = NoCandidate
  /\ clock - start = 39 * pollDelayMs

\* ------------------------------------------------------------------- C30
RECURSIVE pathsTo(_)
\* the number of paths from the root to an object of the graph
pathsTo(id) ==
  IF id = 1 THEN 1
  ELSE LET into == { q \in 1..(id - 1) :
                      \E k \in 1..Len(nextData[q].values) : nextData[q].values[k] = id }
           RECURSIVE sum(_)
           sum(qs) == IF qs = {} THEN 0
                      ELSE LET q == CHOOSE x \in qs : TRUE IN pathsTo(q) + sum(qs \ {q})
       IN sum(into)

RECURSIVE total(_)
total(counts) == IF counts = <<>> THEN 0 ELSE Head(counts) + total(Tail(counts))

\* some candidate of the graph passes the slug check
SomePasses ==
  \E id \in DOMAIN nextData :
    isCandidate(nextData[id]) /\ extractFromCandidate(id, currentSlug).ok

\* C30: the traversal of extractFromNextData terminates on every finite
\* acyclic graph: every iteration pops one node, a node is pushed at most
\* once for every path that reaches it, and when no candidate passes the
\* slug check the traversal returns null once the stack is empty.
C30_Terminates ==
  /\ [](pagePc \in {"walking", "structured"} =>
          /\ \A id \in DOMAIN nextData : pushes[id] <= pathsTo(id)
          /\ total(pushes) = pops + Len(stack))
  /\ [][pagePc = "walking" /\ stack # <<>> => pops' = pops + 1]_vars
  /\ [](pagePc = "structured" =>
          /\ structuredResult = structuredData
          /\ ~SomePasses => /\ structuredResult = NoProblem
                             /\ stack = <<>>
                             /\ \A id \in DOMAIN nextData : pushes[id] = pathsTo(id))
  /\ <>(pagePc = "structured")

\* an object reached on two paths was pushed and popped twice, no candidate
\* passed, and null was returned
C30_Witness ==
  /\ pagePc = "structured"
  /\ structuredResult = NoProblem
  /\ \E id \in DOMAIN nextData : isCandidate(nextData[id]) /\ pushes[id] = 2
  /\ pops = total(pushes)
  /\ stack = <<>>

\* ------------------------------------------------------------------- C28
\* the request c settles as rejected in this step
LoadFails(c) ==
  /\ calls[c].pc # "settled"
  /\ calls'[c].pc = "settled"
  /\ requestOutcome(IF calls'[c].cause = "send" THEN LastError ELSE NULL,
                    calls'[c].response).kind = "rejected"

\* C28: in every state of the panel, problemStatus 'ready' implies a
\* non-null problem; a failed initial load or refresh gives 'error', never
\* 'ready', and leaves the problem as it was; a question is submitted only
\* where the problem is non-null.
C28_ReadyHasProblem ==
  /\ [](problemStatus = "ready" => problem # NULL)
  /\ [][\A c \in DOMAIN calls : LoadFails(c) =>
          /\ problemStatus' = "error"
          /\ problem' = problem]_vars
  /\ [][nreq' # nreq => problem # NULL]_vars

\* a question was submitted on a problem, then a refresh failed: the status
\* is 'error' and the problem is still there
C28_Witness ==
  /\ problemStatus = "error"
  /\ problem # NULL
  /\ nreq >= 1
  /\ Len(calls) = 2
  /\ \A c \in DOMAIN calls : calls[c].pc = "settled"

====
